---- MODULE Spec2Model ----
(***************************************************************************)
(* A model of the copilot-more-more proxy: the API-key credit ledger       *)
(* (api_key_manager.py), the account pool and its sliding-window rate      *)
(* limiter (account_manager.py), and the chat-completion dispatcher with   *)
(* its stream relay (server.py).                                           *)
(*                                                                         *)
(* Credits are floating-point numbers in the source.  The model keeps a    *)
(* balance as an integer number of CREDIT UNITS, one unit being            *)
(* 1/500000 credit, so that `tokens_used / 500000` credits is exactly      *)
(* `tokens_used` units and every comparison of the source is an integer    *)
(* comparison.  Time is `time.time()` in whole seconds.                    *)
(***************************************************************************)
EXTENDS Integers, Sequences, FiniteSets, TLC

\* ---------------------------------------------------------------- bounds
\* API keys that create_api_key can hand out (secrets.token_urlsafe).
KeyOrder == <<"cm-1">>
Keys == {KeyOrder[i] : i \in 1..Len(KeyOrder)}
\* A bearer value that is never a key of the table.
UnknownKey == "cm-x"
\* initial_credits / add-credits amounts / debit sizes tried, in units.
InitialCredits == {-2, 0, 1500}
AddAmounts == {2}
TokenAmounts == {0, 1, 2, 3}
\* caps that keep the ledger's counters finite
MaxAdded == 2
MaxTokensUsed == 4

\* the account pool of the configuration: how many accounts
NumAccounts == 2
\* rate_limit_windows of the configuration (duration s, max_requests)
RATE_LIMIT_WINDOWS ==
    << [duration |-> 2, max_requests |-> 2],
       [duration |-> 4, max_requests |-> 3] >>
\* the clock advances by one of these steps, at most MaxTicks times
TickSteps == {1, 60}
MaxTicks == 2
\* lifetimes (expires_at - now) GitHub gives a refreshed token
TokenLifetimes == {61, 1800}
\* chat-completion requests that arrive during a run: when one request is
\* followed through every answer its upstream can give, and when requests
\* race for the accounts
NumRequests == 1
NumConcurrent == 2
\* timestamps an account holds in the runs of the direct pool calls
MaxRecorded == 2
PoolTickSteps == {60}
\* the credentials add_account is called with
RefreshTokens == 1..NumAccounts
\* the account of the single-account pool
SoloAccounts == {1}
\* the durations mark_rate_limited is called with
MarkDurations == {10, 60}
\* requests of the runs with a single account
NumWindowRequests == 3
\* what the racing requests meet: a funded key, and these upstream answers
ConcurrentCredits == {1500}
ConcurrentRefreshAnswers == {"ok", "bad", "exception"}
ConcurrentPostAnswers == {"429", "exception"}
ConcurrentTickSteps == {1}
\* the clock steps of the runs that let a window fill and expire
SaturationTickSteps == {1, 3}
ConcurrentLifetimes == {1800}
\* what a request carries: the lengths of its messages' contents, max_tokens
RequestMessages == {<<>>, <<3, 5>>}
\* the one body that racing requests carry
ConcurrentMessages == {<<3, 5>>}
MaxTokensChoices == {1}
\* upstream chunks read by one stream relay, at most
MaxChunks == 3
\* content lengths of the choices of a non-streaming upstream answer
ResponseChoices == {<<>>, <<8>>}
\* statuses of upstream answers that are neither 200 nor 429
ErrorStatuses == {502}
\* provider configurations of config.json: the type, "enabled", "priority"
\* (absent, or a number) and whether "api_key" is a non-empty string
ProviderConfigChoices ==
    {[type |-> "openai-compatible", enabled |-> TRUE, priority |-> <<1>>, api_key |-> TRUE],
     [type |-> "openai-compatible", enabled |-> TRUE, priority |-> <<2>>, api_key |-> TRUE],
     [type |-> "openai-compatible", enabled |-> TRUE, priority |-> <<>>, api_key |-> TRUE],
     [type |-> "openai-compatible", enabled |-> FALSE, priority |-> <<1>>, api_key |-> TRUE],
     [type |-> "openai-compatible", enabled |-> TRUE, priority |-> <<1>>, api_key |-> FALSE],
     [type |-> "github-copilot", enabled |-> TRUE, priority |-> <<2>>, api_key |-> FALSE],
     [type |-> "unknown", enabled |-> TRUE, priority |-> <<1>>, api_key |-> TRUE]}
NumProviderConfigs == 3
MaxCalls == 2
ProviderAnswers == {"ok", "429", "rate", "error", "exception"}
\* usage.total_tokens of an upstream JSON answer: absent, or this number
UsageChoices == {<<>>, <<5>>}

\* ------------------------------------------------------ program constants
\* api_key_manager.py:26  credit_cost = tokens_used / 500000
DEDUCT_TOKENS_PER_CREDIT == 500000
\* api_key_manager.py:21  estimated_cost = estimated_tokens / 1000
VALIDATE_TOKENS_PER_CREDIT == 1000
\* account_manager.py:25  expires_at > time.time() + 60
TOKEN_SAFETY_SKEW == 60
\* account_manager.py:53  mark_rate_limited(self, duration: int = 60)
RATE_LIMIT_DURATION == 60
\* server.py:452  max_retries = 3
max_retries == 3
\* provider_manager.py 31: the sort key of a configuration without "priority"
DEFAULT_PRIORITY == 999
\* openai_compatible_provider.py 166
PROVIDER_RATE_LIMIT_DURATION == 60

VARIABLES
    api_keys,      \* ApiKeyManager.api_keys: key -> ApiKeyInfo
    ret,           \* the last ledger call and what it returned
    initial,       \* history: credits a key was created with
    added,         \* history: sum of the amounts add_credits accepted
    debited,       \* history: sum of the tokens of the debits that returned true
    now,           \* time.time()
    ticks,         \* how often the clock has advanced
    accounts,      \* AccountManager.accounts: the list of AccountInfo
    current_index, \* AccountManager.current_index
    req,           \* the chat-completion requests in flight, one record each
    picked,        \* history: what the last get_next_usable_account calls returned
    providers,     \* ProviderManager.providers
    priority_order,\* ProviderManager.priority_order
    call,          \* the ProviderManager.make_request call in progress
    flight         \* the calls in progress on one GithubCopilotProvider

ledgerVars == <<api_keys, ret, initial, added, debited>>
clockVars == <<now, ticks>>
poolVars == <<accounts, current_index>>
rotationVars == <<picked>>
providerVars == <<providers, priority_order, call, flight>>
restVars == <<rotationVars, providerVars>>
vars == <<api_keys, ret, initial, added, debited, now, ticks,
          accounts, current_index, req, picked, providers, priority_order,
          call, flight>>

\* ------------------------------------------------------------ ApiKeyInfo
ApiKeyInfo(credits) ==
    [credits |-> credits, total_tokens_used |-> 0, enabled |-> TRUE]

\* credits >= estimated_tokens / 1000, with credits = units / 500000
has_sufficient_credits(info, estimated_tokens) ==
    /\ info.credits * VALIDATE_TOKENS_PER_CREDIT
          >= estimated_tokens * DEDUCT_TOKENS_PER_CREDIT
    /\ info.enabled

\* credit_cost = tokens_used / 500000 credits = tokens_used units
ApiKeyInfo_deduct_ok(info, tokens_used) ==
    info.credits >= tokens_used

\* a debit that forgets the usage counter
Mut_deduct_no_usage(info, tokens_used) ==
    IF ApiKeyInfo_deduct_ok(info, tokens_used)
    THEN [info EXCEPT !.credits = @ - tokens_used]
    ELSE info

\* a debit that counts the usage of a refused debit
Mut_deduct_counts_refused(info, tokens_used) ==
    [info EXCEPT !.credits = IF ApiKeyInfo_deduct_ok(info, tokens_used)
                             THEN @ - tokens_used ELSE @,
                 !.total_tokens_used = @ + tokens_used]

ApiKeyInfo_deduct_tokens(info, tokens_used) ==
    IF ApiKeyInfo_deduct_ok(info, tokens_used)
    THEN [info EXCEPT !.credits = @ - tokens_used,
                      !.total_tokens_used = @ + tokens_used]
    ELSE info

\* ---------------------------------------------------------- ApiKeyManager
get_key_info(keys, api_key) == api_key \in DOMAIN keys

validate_key(keys, api_key, estimated_tokens) ==
    /\ api_key \in DOMAIN keys
    /\ has_sufficient_credits(keys[api_key], estimated_tokens)

ApiKeyManager_deduct_ok(keys, api_key, tokens_used) ==
    /\ api_key \in DOMAIN keys
    /\ ApiKeyInfo_deduct_ok(keys[api_key], tokens_used)

ApiKeyManager_deduct_tokens(keys, api_key, tokens_used) ==
    IF api_key \in DOMAIN keys
    THEN [keys EXCEPT ![api_key] = ApiKeyInfo_deduct_tokens(@, tokens_used)]
    ELSE keys

Ret(op, key, arg, result) ==
    [op |-> op, key |-> key, arg |-> arg, result |-> result]

\* history of the debits that returned true
Debited(keys, api_key, tokens_used) ==
    IF ApiKeyManager_deduct_ok(keys, api_key, tokens_used)
    THEN [debited EXCEPT ![api_key] = @ + tokens_used]
    ELSE debited

\* the direct calls of the ledger --------------------------------------
create_api_key(k, initial_credits) ==
    /\ k \notin DOMAIN api_keys
    /\ api_keys' = [x \in DOMAIN api_keys \cup {k} |->
                      IF x = k THEN ApiKeyInfo(initial_credits) ELSE api_keys[x]]
    /\ initial' = [initial EXCEPT ![k] = initial_credits]
    /\ ret' = Ret("create", k, initial_credits, TRUE)
    /\ UNCHANGED <<added, debited, now, ticks, accounts, current_index, req>>
    /\ UNCHANGED restVars

add_credits(k, amount) ==
    /\ k \in DOMAIN api_keys => added[k] + amount <= MaxAdded
    /\ api_keys' = IF k \in DOMAIN api_keys
                   THEN [api_keys EXCEPT ![k].credits = @ + amount]
                   ELSE api_keys
    /\ added' = IF k \in DOMAIN api_keys
                THEN [added EXCEPT ![k] = @ + amount] ELSE added
    /\ ret' = Ret("add", k, amount, k \in DOMAIN api_keys)
    /\ UNCHANGED <<initial, debited, now, ticks, accounts, current_index, req>>
    /\ UNCHANGED restVars

validate(k, estimated_tokens) ==
    /\ ret' = Ret("validate", k, estimated_tokens,
                  validate_key(api_keys, k, estimated_tokens))
    /\ UNCHANGED <<api_keys, initial, added, debited, now, ticks, accounts,
                   current_index, req>>
    /\ UNCHANGED restVars

deduct_tokens(k, tokens_used) ==
    /\ k \in DOMAIN api_keys =>
          api_keys[k].total_tokens_used + tokens_used <= MaxTokensUsed
    /\ api_keys' = ApiKeyManager_deduct_tokens(api_keys, k, tokens_used)
    /\ debited' = Debited(api_keys, k, tokens_used)
    /\ ret' = Ret("deduct", k, tokens_used,
                  ApiKeyManager_deduct_ok(api_keys, k, tokens_used))
    /\ UNCHANGED <<initial, added, now, ticks, accounts, current_index, req>>
    /\ UNCHANGED restVars

\* a disable that writes back the record the key was created with
Mut_disable_key_stale_copy(k) ==
    /\ api_keys' = IF k \in DOMAIN api_keys
                   THEN [api_keys EXCEPT
                            ![k] = [ApiKeyInfo(initial[k]) EXCEPT
                                       !.enabled = FALSE]]
                   ELSE api_keys
    /\ ret' = Ret("disable", k, 0, k \in DOMAIN api_keys)
    /\ UNCHANGED <<initial, added, debited, now, ticks, accounts, current_index, req>>
    /\ UNCHANGED restVars

disable_key(k) ==
    /\ api_keys' = IF k \in DOMAIN api_keys
                   THEN [api_keys EXCEPT ![k].enabled = FALSE] ELSE api_keys
    /\ ret' = Ret("disable", k, 0, k \in DOMAIN api_keys)
    /\ UNCHANGED <<initial, added, debited, now, ticks, accounts, current_index, req>>
    /\ UNCHANGED restVars

enable_key(k) ==
    /\ api_keys' = IF k \in DOMAIN api_keys
                   THEN [api_keys EXCEPT ![k].enabled = TRUE] ELSE api_keys
    /\ ret' = Ret("enable", k, 0, k \in DOMAIN api_keys)
    /\ UNCHANGED <<initial, added, debited, now, ticks, accounts, current_index, req>>
    /\ UNCHANGED restVars

\* ------------------------------------------------------------ AccountInfo
\* AccessToken is kept in a sequence of length 0 (None) or 1.  last_used
\* (of AccessToken and of AccountInfo) is written and never read: left out.
AccessToken(expires_at) == [expires_at |-> expires_at]

AccountInfo(refresh_token) ==
    [refresh_token |-> refresh_token,
     access_token |-> <<>>, rate_limited_until |-> 0, bad_credentials |-> FALSE,
     request_timestamps |-> <<>>]

is_valid(tok, t) == tok.expires_at > t + TOKEN_SAFETY_SKEW

update_access_token(acc, expires_at) ==
    [acc EXCEPT !.access_token = <<AccessToken(expires_at)>>]

mark_rate_limited(acc, t, duration) ==
    [acc EXCEPT !.rate_limited_until = t + duration]

RECURSIVE MaxDuration(_)
MaxDuration(ws) ==
    IF ws = <<>> THEN 0
    ELSE LET m == MaxDuration(Tail(ws)) IN
         IF Head(ws).duration > m THEN Head(ws).duration ELSE m

max_window == MaxDuration(RATE_LIMIT_WINDOWS)

\* a window that still counts the timestamp at its far edge
Mut_After_inclusive(ts, cutoff) == SelectSeq(ts, LAMBDA x : x >= cutoff)

After(ts, cutoff) == SelectSeq(ts, LAMBDA x : x > cutoff)

\* record_request: append, then drop what is older than the largest window
record_request(acc, t) ==
    [acc EXCEPT !.request_timestamps = After(Append(@, t), t - max_window)]

\* a deadline that still holds at the second it names
Mut_external_limited_inclusive(acc, t) ==
    acc.rate_limited_until > 0 /\ t <= acc.rate_limited_until

external_limited(acc, t) ==
    acc.rate_limited_until > 0 /\ t < acc.rate_limited_until

\* a limiter that allows one request more than max_requests in a window
Mut_window_limited_over(ts, ws, t) ==
    \E i \in 1..Len(ws) :
        Len(After(ts, t - ws[i].duration)) > ws[i].max_requests

\* the first window, in configured order, that holds max_requests timestamps
RECURSIVE window_limited(_, _, _)
window_limited(ts, ws, t) ==
    IF ws = <<>> THEN FALSE
    ELSE \/ Len(After(ts, t - Head(ws).duration)) >= Head(ws).max_requests
         \/ window_limited(ts, Tail(ws), t)

\* a limiter that keeps only the timestamps of its first window
Mut_is_rate_limited_prunes_short(acc, t) ==
    IF external_limited(acc, t)
    THEN [limited |-> TRUE, acc |-> acc]
    ELSE LET pruned == After(acc.request_timestamps,
                             t - RATE_LIMIT_WINDOWS[1].duration) IN
         [limited |-> window_limited(pruned, RATE_LIMIT_WINDOWS, t),
          acc |-> [acc EXCEPT !.request_timestamps = pruned]]

\* is_rate_limited: its answer, and the account after its pruning (which
\* the early return on the external deadline skips)
is_rate_limited(acc, t) ==
    IF external_limited(acc, t)
    THEN [limited |-> TRUE, acc |-> acc]
    ELSE LET pruned == After(acc.request_timestamps, t - max_window) IN
         [limited |-> window_limited(pruned, RATE_LIMIT_WINDOWS, t),
          acc |-> [acc EXCEPT !.request_timestamps = pruned]]

\* get_access_token 96-97: whether the cached token is returned, with no
\* request to GitHub
get_access_token(acc, t) ==
    [cached |-> acc.access_token # <<>> /\ is_valid(acc.access_token[1], t)]

\* refresh_access_token 135-151 and get_access_token 99-105: the account
\* after the answer to the refresh GET.  `answer` is "ok" (200), "bad" (401
\* or a body with "Bad credentials"), "fail" (another status) or
\* "exception" (the GET raised); `life` is expires_at - now of a new token.
refresh_access_token(acc, answer, life, t) ==
    IF answer = "ok" THEN update_access_token(acc, t + life)
    ELSE IF answer \in {"bad", "fail"}
    THEN [acc EXCEPT !.bad_credentials = TRUE]
    ELSE acc

is_usable(acc, t) ==
    IF acc.access_token = <<>>
    THEN [usable |-> TRUE, acc |-> acc]
    ELSE LET rl == is_rate_limited(acc, t) IN
         [usable |-> ~rl.limited /\ ~acc.bad_credentials, acc |-> rl.acc]

\* ---------------------------------------------------------- AccountManager
NoAccount == 0

\* a walk that returns a usable account without moving the cursor past it
RECURSIVE Mut_walk_accounts_keeps_cursor(_, _, _, _)
Mut_walk_accounts_keeps_cursor(accs, idx, checked, t) ==
    IF checked >= Len(accs)
    THEN [account |-> NoAccount, accounts |-> accs, current_index |-> idx]
    ELSE LET u == is_usable(accs[idx + 1], t)
             seen == [accs EXCEPT ![idx + 1] = u.acc]
         IN IF u.usable
            THEN [account |-> idx + 1, accounts |-> seen, current_index |-> idx]
            ELSE Mut_walk_accounts_keeps_cursor(seen, (idx + 1) % Len(accs),
                                                checked + 1, t)

\* the while loop of get_next_usable_account, `checked` accounts into it
RECURSIVE walk_accounts(_, _, _, _)
walk_accounts(accs, idx, checked, t) ==
    IF checked >= Len(accs)
    THEN [account |-> NoAccount, accounts |-> accs, current_index |-> idx]
    ELSE LET u == is_usable(accs[idx + 1], t)
             seen == [accs EXCEPT ![idx + 1] = u.acc]
         IN IF u.usable
            THEN [account |-> idx + 1,
                  accounts |-> seen,
                  current_index |-> (idx + 1) % Len(accs)]
            ELSE walk_accounts(seen, (idx + 1) % Len(accs), checked + 1, t)

\* a search that starts at the first account whatever the cursor
Mut_get_next_usable_account_from_first(accs, idx, t) ==
    IF Len(accs) = 0
    THEN [account |-> NoAccount, accounts |-> accs, current_index |-> idx]
    ELSE walk_accounts(accs, 0, 0, t)

get_next_usable_account(accs, idx, t) ==
    IF Len(accs) = 0
    THEN [account |-> NoAccount, accounts |-> accs, current_index |-> idx]
    ELSE walk_accounts(accs, idx, 0, t)

\* the direct calls of the account pool ----------------------------------
LastN(seq, n) == IF Len(seq) <= n THEN seq ELSE SubSeq(seq, Len(seq) - n + 1, Len(seq))

\* AccountManager.get_next_usable_account(); `picked` keeps what the last
\* calls returned and whether every account was usable when they were made
CallNextUsable ==
    /\ LET sel == get_next_usable_account(accounts, current_index, now)
           all_usable == \A a \in 1..Len(accounts) :
                             is_usable(accounts[a], now).usable
       IN /\ accounts' = sel.accounts
          /\ current_index' = sel.current_index
          /\ picked' = LastN(Append(picked, [account |-> sel.account,
                                             all_usable |-> all_usable]),
                             Len(accounts))
    /\ UNCHANGED <<ledgerVars, clockVars, req, providerVars>>

\* AccountInfo.update_access_token(token, expires_at), which
\* get_access_token calls when the account holds no valid token
CallUpdateAccessToken(a, life) ==
    /\ accounts[a].access_token # <<>> =>
           ~is_valid(accounts[a].access_token[1], now)
    /\ accounts' = [accounts EXCEPT ![a] = update_access_token(@, now + life)]
    /\ UNCHANGED <<ledgerVars, clockVars, current_index, req, restVars>>

\* AccountInfo.record_request()
CallRecordRequest(a) ==
    /\ Len(accounts[a].request_timestamps) < MaxRecorded
    /\ accounts' = [accounts EXCEPT ![a] = record_request(@, now)]
    /\ UNCHANGED <<ledgerVars, clockVars, current_index, req, restVars>>

\* AccountInfo.mark_rate_limited(duration)
CallMarkRateLimited(a, duration) ==
    /\ accounts' = [accounts EXCEPT
                       ![a] = mark_rate_limited(@, now, duration)]
    /\ UNCHANGED <<ledgerVars, clockVars, current_index, req, restVars>>

\* refresh_access_token 146-148: the refresh was refused
CallRefreshRefused(a) ==
    /\ accounts' = [accounts EXCEPT ![a].bad_credentials = TRUE]
    /\ UNCHANGED <<ledgerVars, clockVars, current_index, req, restVars>>

\* an add_account that does not look for the credential in the pool
Mut_add_account_always(refresh_token) ==
    /\ accounts' = Append(accounts, AccountInfo(refresh_token))
    /\ ret' = Ret("add_account", refresh_token, 0, TRUE)
    /\ UNCHANGED <<api_keys, initial, added, debited, clockVars,
                   current_index, req, restVars>>

\* AccountManager.add_account(refresh_token, ...); `ret` keeps the call and
\* whether it added an account
add_account(refresh_token) ==
    /\ LET present == \E i \in 1..Len(accounts) :
                          accounts[i].refresh_token = refresh_token
       IN /\ accounts' = IF present THEN accounts
                         ELSE Append(accounts, AccountInfo(refresh_token))
          /\ ret' = Ret("add_account", refresh_token, 0, ~present)
    /\ UNCHANGED <<api_keys, initial, added, debited, clockVars,
                   current_index, req, restVars>>

\* AccountInfo.get_access_token(), up to its return or to the refresh GET;
\* `ret` keeps the call: "get_access_token" when it returned the cached
\* token, "refreshing" while the GET is under way
CallGetAccessToken(a) ==
    /\ ret.op # "refreshing"
    /\ LET cached == get_access_token(accounts[a], now).cached IN
       ret' = Ret(IF cached THEN "get_access_token" ELSE "refreshing",
                  a, "", cached)
    /\ UNCHANGED <<api_keys, initial, added, debited, clockVars, poolVars,
                   req, restVars>>

\* the answer to the refresh GET arrives and get_access_token returns
CallRefreshAnswer(a, answer, life) ==
    /\ ret.op = "refreshing" /\ ret.key = a
    /\ accounts' = [accounts EXCEPT
                       ![a] = refresh_access_token(@, answer, life, now)]
    /\ ret' = Ret("refresh_access_token", a, answer, answer = "ok")
    /\ UNCHANGED <<api_keys, initial, added, debited, clockVars,
                   current_index, req, restVars>>

\* ------------------------------------------------------------ StreamRelay
\* Bytes are kept as pieces.  "DONE_a" is `data: [DO` and "DONE_b" is
\* `NE]\n\n`, so the sentinel `data: [DONE]\n\n` is DONE_a followed by DONE_b.
\* "content8" is a data frame whose "content" string has 8 characters and is
\* followed by `",`; "content_open" is one whose content is followed by no
\* `",` (as in `{"delta":{"content":"he"}}`).  The other pieces are the
\* error frames the relay writes itself.
DONE == <<"DONE_a", "DONE_b">>
\* "content8" holds a content of 8 characters, "content_open" one whose
\* closing quote is not in the chunk, "content_bad" one cut inside a
\* multi-byte character, so that chunk.decode('utf-8') raises
ContentFrames == {"content8", "content_open", "content_bad"}
ErrorFrames == {"connection_error", "stream_error", "rate_limit_error", "api_error"}

content_length(piece) == IF piece = "content8" THEN 8 ELSE 2
has_end_marker(piece) == piece = "content8"
decodes(chunk) == \A i \in 1..Len(chunk) : chunk[i] # "content_bad"

\* chunk.endswith(b"data: [DONE]\n\n")
ends_with_done(chunk) ==
    /\ Len(chunk) >= 2
    /\ chunk[Len(chunk) - 1] = "DONE_a"
    /\ chunk[Len(chunk)] = "DONE_b"

\* the tokens one chunk adds to total_tokens (a chunk of the upstreams
\* modelled here holds at most one content frame)
chunk_tokens(chunk) ==
    LET found == {i \in 1..Len(chunk) : chunk[i] \in ContentFrames} IN
    IF found = {} \/ ~decodes(chunk) THEN 0
    ELSE LET first == CHOOSE i \in found : \A j \in found : i <= j IN
         IF has_end_marker(chunk[first]) /\ content_length(chunk[first]) > 0
         THEN content_length(chunk[first]) \div 4
         ELSE 0

\* What a well-formed upstream may send next: content frames, then at most
\* one sentinel, cut into chunks anywhere (also inside the sentinel).
\* `up` is "body" before the sentinel, "half" inside it, "end" after it.
UpstreamChunks(up) ==
    IF up = "body"
    THEN {[chunk |-> <<c>>, up |-> "body"] : c \in ContentFrames}
         \cup {[chunk |-> <<c>> \o DONE, up |-> "end"] : c \in ContentFrames}
         \cup {[chunk |-> DONE, up |-> "end"],
               [chunk |-> <<"DONE_a">>, up |-> "half"]}
    ELSE IF up = "half"
    THEN {[chunk |-> <<"DONE_b">>, up |-> "end"]}
    ELSE {}

\* ------------------------------------------------ proxy_chat_completions
Requests == 1..NumRequests
ConcurrentRequests == 1..NumConcurrent
WindowRequests == 1..NumWindowRequests
AllRequests == Requests \cup ConcurrentRequests \cup WindowRequests
NoHeader == ""

NewRequest ==
    [pc |-> "idle", x_api_key |-> NoHeader, stream_mode |-> FALSE,
     retry_count |-> 0, last_error |-> FALSE,
     account |-> NoAccount, status |-> 0,
     up |-> "body", read |-> <<>>, delivered |-> <<>>, total_tokens |-> 0,
     \* history: the answer to the first POST, its account and time;
     \* whether another account was usable when a first 429 came; whether
     \* every later refresh and POST was answered 200; whether some POST was
     \* answered 200; how the upstream body ended ("eof", "connection",
     \* "other"); the tokens of the debits made for the request
     first_reply |-> "", first_account |-> NoAccount, first_time |-> 0,
     alt_usable |-> FALSE, later_ok |-> TRUE, ok_reply |-> FALSE,
     end |-> "", debit |-> <<>>,
     \* history: the POSTs issued and the timestamps recorded for the
     \* request; whether every POST answered so far was declined for rate
     \* limiting; whether a token refresh failed; the JSON body of the 200
     \* answer
     posts |-> 0, records |-> 0, only_declined |-> TRUE,
     refresh_failed |-> FALSE, response |-> <<>>,
     \* history: the estimate made before the request was validated; the
     \* connectors of the sessions of the latest refresh GET and POST
     estimate |-> 0, refresh_via |-> 0, post_via |-> 0]

\* raise HTTPException(status) / return: the request is over
Finish(rec, status) == [rec EXCEPT !.pc = "done", !.status = status]

RECURSIVE SumQuarter(_)
SumQuarter(lens) ==
    IF lens = <<>> THEN 0 ELSE (Head(lens) \div 4) + SumQuarter(Tail(lens))

\* server.py 416-425
estimated_tokens(messages, mt) == SumQuarter(messages) + mt

\* a loop that allows one pass more than max_retries
Mut_dispatch_loop_extra_pass(rec, accs, idx, t) ==
    IF rec.retry_count >= max_retries + 1
    THEN [rec |-> Finish(rec, IF rec.last_error THEN 500 ELSE 429),
          accounts |-> accs, current_index |-> idx]
    ELSE LET sel == get_next_usable_account(accs, idx, t) IN
         IF sel.account = NoAccount
         THEN [rec |-> Finish(rec, 503),
               accounts |-> sel.accounts, current_index |-> sel.current_index]
         ELSE LET a == sel.account
                  acc == sel.accounts[a]
              IN IF acc.access_token # <<>> /\ is_valid(acc.access_token[1], t)
                 THEN [rec |-> [rec EXCEPT !.pc = "post", !.account = a,
                                           !.records = @ + 1, !.posts = @ + 1],
                       accounts |-> [sel.accounts EXCEPT
                                        ![a] = record_request(@, t)],
                       current_index |-> sel.current_index]
                 ELSE [rec |-> [rec EXCEPT !.pc = "refresh", !.account = a],
                       accounts |-> sel.accounts,
                       current_index |-> sel.current_index]

\* config.py 159-184: the proxy of account a; here the odd accounts have a
\* SOCKS5 proxy of their own, named by the account's index
NoProxy == 0
proxy_config(a) == IF a % 2 = 1 THEN a ELSE NoProxy

\* account_manager.py 110-122: the connector of the refresh session
refresh_connector(a) == proxy_config(a)

\* account_manager.py 157-167: the connector is built and kept in
\* _proxy_connector, and None is returned
get_proxy_connector(a) == NoProxy

\* a loop that allows one pass more than max_retries
Mut_dispatch_loop_one_more(rec, accs, idx, t) ==
    IF rec.retry_count > max_retries
    THEN [rec |-> Finish(rec, IF rec.last_error THEN 500 ELSE 429),
          accounts |-> accs, current_index |-> idx]
    ELSE LET sel == get_next_usable_account(accs, idx, t) IN
         IF sel.account = NoAccount
         THEN [rec |-> Finish(rec, 503),
               accounts |-> sel.accounts, current_index |-> sel.current_index]
         ELSE LET a == sel.account
                  acc == sel.accounts[a]
              IN IF get_access_token(acc, t).cached
                 THEN [rec |-> [rec EXCEPT !.pc = "post", !.account = a,
                                           !.records = @ + 1, !.posts = @ + 1,
                                           !.post_via = get_proxy_connector(a)],
                       accounts |-> [sel.accounts EXCEPT
                                        ![a] = record_request(@, t)],
                       current_index |-> sel.current_index]
                 ELSE [rec |-> [rec EXCEPT !.pc = "refresh", !.account = a,
                                           !.refresh_via = refresh_connector(a)],
                       accounts |-> sel.accounts,
                       current_index |-> sel.current_index]

\* One pass of `while retry_count < max_retries` up to its first await that
\* suspends, then what follows the loop.  make_request's
\* `await account.get_access_token()` returns at once on a cached valid
\* token, so selection, record_request and the POST are one step then.
dispatch_loop(rec, accs, idx, t) ==
    IF rec.retry_count >= max_retries
    THEN [rec |-> Finish(rec, IF rec.last_error THEN 500 ELSE 429),
          accounts |-> accs, current_index |-> idx]
    ELSE LET sel == get_next_usable_account(accs, idx, t) IN
         IF sel.account = NoAccount
         THEN [rec |-> Finish(rec, 503),
               accounts |-> sel.accounts, current_index |-> sel.current_index]
         ELSE LET a == sel.account
                  acc == sel.accounts[a]
              IN IF get_access_token(acc, t).cached
                 THEN [rec |-> [rec EXCEPT !.pc = "post", !.account = a,
                                           !.records = @ + 1, !.posts = @ + 1,
                                           !.post_via = get_proxy_connector(a)],
                       accounts |-> [sel.accounts EXCEPT
                                        ![a] = record_request(@, t)],
                       current_index |-> sel.current_index]
                 ELSE [rec |-> [rec EXCEPT !.pc = "refresh", !.account = a,
                                           !.refresh_via = refresh_connector(a)],
                       accounts |-> sel.accounts,
                       current_index |-> sel.current_index]

Commit(r, b) ==
    /\ req' = [req EXCEPT ![r] = b.rec]
    /\ accounts' = b.accounts
    /\ current_index' = b.current_index

\* lines 403-413: the key checks, up to `await request.json()`
Arrive(r, key) ==
    /\ req[r].pc = "idle"
    /\ r > 1 => req[r - 1].pc # "idle"    \* requests are numbered as they arrive
    /\ LET rec == [req[r] EXCEPT !.x_api_key = key]
       IN req' = [req EXCEPT ![r] =
                    IF key = NoHeader THEN Finish(rec, 401)
                    ELSE IF ~get_key_info(api_keys, key) THEN Finish(rec, 401)
                    ELSE IF ~api_keys[key].enabled THEN Finish(rec, 403)
                    ELSE [rec EXCEPT !.pc = "body"]]
    /\ UNCHANGED <<ledgerVars, clockVars, poolVars>>
    /\ UNCHANGED restVars

\* an admission that picks its account before it checks the credits
Mut_Admit_selects_first(r, msgs, mt, stream) ==
    /\ req[r].pc = "body"
    /\ LET b == dispatch_loop([req[r] EXCEPT !.stream_mode = stream],
                              accounts, current_index, now)
       IN IF ~validate_key(api_keys, req[r].x_api_key,
                           estimated_tokens(msgs, mt))
          THEN /\ req' = [req EXCEPT ![r] = Finish(@, 402)]
               /\ accounts' = b.accounts
               /\ current_index' = b.current_index
          ELSE Commit(r, b)
    /\ UNCHANGED <<ledgerVars, clockVars>>
    /\ UNCHANGED restVars

\* lines 413-463: the body is read; the estimate, validate_key, then the
\* first pass of the loop (preprocess_request_body's 400 is left out)
Admit(r, msgs, mt, stream) ==
    /\ req[r].pc = "body"
    /\ IF ~validate_key(api_keys, req[r].x_api_key, estimated_tokens(msgs, mt))
       THEN /\ req' = [req EXCEPT ![r] = Finish(@, 402)]
            /\ UNCHANGED poolVars
       ELSE Commit(r, dispatch_loop(
                [req[r] EXCEPT !.stream_mode = stream,
                               !.estimate = estimated_tokens(msgs, mt)],
                accounts, current_index, now))
    /\ UNCHANGED <<ledgerVars, clockVars>>
    /\ UNCHANGED restVars

\* another account than `a` that is_usable would accept at time t
other_usable(accs, a, t) ==
    \E b \in 1..Len(accs) : b # a /\ is_usable(accs[b], t).usable

\* account_manager.py 94-155: the answer to the refresh GET arrives, then
\* make_request 86-118 runs on to the POST.  `answer` is "ok" (200), "bad"
\* (401 or a body with "Bad credentials"), "fail" (another status) or
\* "exception" (the GET raised).
refresh_reply(rec, accs, answer, life, t) ==
    LET a == rec.account IN
    IF answer = "ok"
    THEN [rec |-> [rec EXCEPT !.pc = "post", !.records = @ + 1,
                              !.posts = @ + 1,
                              !.post_via = get_proxy_connector(a)],
          accounts |-> [accs EXCEPT
              ![a] = record_request(
                         refresh_access_token(@, answer, life, t), t)]]
    ELSE [rec |-> [Finish(rec, 503) EXCEPT !.later_ok = FALSE,
                                           !.refresh_failed = TRUE],
          accounts |-> [accs EXCEPT
              ![a] = refresh_access_token(@, answer, life, t)]]

RefreshReply(r, answer, life) ==
    /\ req[r].pc = "refresh"
    /\ LET b == refresh_reply(req[r], accounts, answer, life, now) IN
       /\ req' = [req EXCEPT ![r] = b.rec]
       /\ accounts' = b.accounts
    /\ UNCHANGED <<ledgerVars, clockVars, current_index>>
    /\ UNCHANGED restVars

\* the stream make_request returns in place of a relay (lines 124-181)
error_stream(rec, frame) ==
    [rec EXCEPT !.pc = "done", !.status = 200,
                !.delivered = << <<frame>> \o DONE >>]

\* server.py 119-140 and 144-164: a 429, or an error body that holds "rate"
rate_limit_reply(rec, accs, idx, t) ==
    LET a == rec.account
        marked == [accs EXCEPT
                      ![a] = mark_rate_limited(@, t, RATE_LIMIT_DURATION)]
        seen == IF rec.first_reply = "429" /\ rec.retry_count = 0
                THEN [rec EXCEPT !.alt_usable = other_usable(marked, a, t)]
                ELSE rec
    IN IF rec.stream_mode
       THEN [rec |-> error_stream(seen, "rate_limit_error"),
             accounts |-> marked, current_index |-> idx]
       ELSE dispatch_loop([seen EXCEPT !.retry_count = @ + 1], marked, idx, t)

\* server.py 166-182: another status than 200 and 429, no "rate" in the body
error_reply(rec, accs, idx, status) ==
    [rec |-> IF rec.stream_mode THEN error_stream(rec, "api_error")
             ELSE Finish(rec, status),
     accounts |-> accs, current_index |-> idx]

\* server.py 497-500: session.post raised
exception_reply(rec, accs, idx, t) ==
    dispatch_loop([rec EXCEPT !.last_error = TRUE, !.retry_count = @ + 1],
                  accs, idx, t)

\* server.py 255-263
response_tokens(choices) == SumQuarter(choices)

\* history: the answer to a POST of the request
noted(rec, answer, t) ==
    LET seen == [rec EXCEPT !.ok_reply = @ \/ answer = "ok",
                            !.only_declined = @ /\ answer \in {"429", "rate"}]
    IN
    IF rec.first_reply = ""
    THEN [seen EXCEPT !.first_reply = answer, !.first_account = rec.account,
                      !.first_time = t]
    ELSE IF answer # "ok" THEN [seen EXCEPT !.later_ok = FALSE]
    ELSE seen

\* the answer to the POST arrives with a status other than 200, or not at all
PostFails(r, answer, status) ==
    /\ req[r].pc = "post"
    /\ LET rec == noted(req[r], answer, now) IN
       Commit(r, CASE answer = "429" ->
                        rate_limit_reply(rec, accounts, current_index, now)
                   [] answer = "rate" ->
                        rate_limit_reply(rec, accounts, current_index, now)
                   [] answer = "error" ->
                        error_reply(rec, accounts, current_index, status)
                   [] answer = "exception" ->
                        exception_reply(rec, accounts, current_index, now))
    /\ UNCHANGED <<ledgerVars, clockVars>>
    /\ UNCHANGED restVars

\* server.py 253-273: 200 to a non-streaming request; the body holds
\* `choices` (the lengths of their message.content) and, when `usage` is not
\* empty, usage.total_tokens, which the code does not read
PostJson(r, choices, usage) ==
    /\ req[r].pc = "post" /\ ~req[r].stream_mode
    /\ LET n == response_tokens(choices) IN
       /\ api_keys' = ApiKeyManager_deduct_tokens(api_keys, req[r].x_api_key, n)
       /\ debited' = Debited(api_keys, req[r].x_api_key, n)
       /\ req' = [req EXCEPT ![r] =
                     [Finish(noted(@, "ok", now), 200) EXCEPT
                                            !.total_tokens = n,
                                            !.debit = Append(@, n),
                                            !.response =
                                                <<[choices |-> choices,
                                                   usage |-> usage]>>]]
    /\ UNCHANGED <<ret, initial, added, clockVars, poolVars>>
    /\ UNCHANGED restVars

\* server.py 104-118: the ClientSession and the response live inside the
\* two `async with` blocks of make_request, which the request is in from the
\* POST until make_request returns or raises; `return response_generator()`
\* (252) leaves both blocks before the relay has run
session_open(rec) == rec.pc = "post"

\* server.py 184-252 and 465-482: 200 to a streaming request
PostStream(r) ==
    /\ req[r].pc = "post" /\ req[r].stream_mode
    /\ req' = [req EXCEPT ![r] = [noted(@, "ok", now) EXCEPT
                                      !.pc = "stream", !.status = 200]]
    /\ UNCHANGED <<ledgerVars, clockVars, poolVars>>
    /\ UNCHANGED restVars

\* a relay that forwards only the chunks it could decode
Mut_relay_chunk_drops_undecoded(rec, uc) ==
    [rec EXCEPT !.total_tokens = @ + chunk_tokens(uc.chunk),
                !.read = Append(@, uc.chunk),
                !.delivered = IF decodes(uc.chunk) THEN Append(@, uc.chunk)
                              ELSE @,
                !.up = uc.up]

\* response_generator 196-214: one chunk is read, counted and yielded
relay_chunk(rec, uc) ==
    [rec EXCEPT !.total_tokens = @ + chunk_tokens(uc.chunk),
                !.read = Append(@, uc.chunk),
                !.delivered = Append(@, uc.chunk),
                !.up = uc.up]

StreamChunk(r) ==
    /\ req[r].pc = "stream"
    /\ Len(req[r].read) < MaxChunks
    /\ \E uc \in UpstreamChunks(req[r].up) :
          req' = [req EXCEPT ![r] = relay_chunk(@, uc)]
    /\ UNCHANGED <<ledgerVars, clockVars, poolVars>>
    /\ UNCHANGED restVars

\* response_generator 223-225 and, when no chunk was read so that `chunk`
\* is unbound, 239-249
relay_end(rec) ==
    [rec EXCEPT !.pc = "done",
                !.end = "eof",
                !.debit = Append(@, rec.total_tokens),
                !.delivered =
                    IF rec.read = <<>>
                    THEN @ \o << <<"stream_error">>, DONE >>
                    ELSE IF ~ends_with_done(rec.read[Len(rec.read)])
                    THEN Append(@, DONE)
                    ELSE @]

\* response_generator 216-225: the upstream body ends
StreamEnd(r) ==
    /\ req[r].pc = "stream"
    /\ req[r].up \in {"body", "end"}
    /\ api_keys' = ApiKeyManager_deduct_tokens(api_keys, req[r].x_api_key,
                                               req[r].total_tokens)
    /\ debited' = Debited(api_keys, req[r].x_api_key, req[r].total_tokens)
    /\ req' = [req EXCEPT ![r] = relay_end(@)]
    /\ UNCHANGED <<ret, initial, added, clockVars, poolVars>>
    /\ UNCHANGED restVars

\* a relay that ends a broken stream without telling the client why
Mut_relay_fault_silent(rec, kind) ==
    [rec EXCEPT !.pc = "done", !.end = kind, !.delivered = Append(@, DONE)]

\* response_generator 227-249: reading the body raises; `kind` is
\* "connection" (ClientConnectionError, ClientPayloadError) or "other"
relay_fault(rec, kind) ==
    [rec EXCEPT !.pc = "done",
                !.end = kind,
                !.delivered = @ \o
                    << <<IF kind = "connection" THEN "connection_error"
                         ELSE "stream_error">>, DONE >>]

StreamFault(r, kind) ==
    /\ req[r].pc = "stream"
    /\ req' = [req EXCEPT ![r] = relay_fault(@, kind)]
    /\ UNCHANGED <<ledgerVars, clockVars, poolVars>>
    /\ UNCHANGED restVars

\* ------------------------------------------------------------ api_routes
\* get_api_key: the bearer names a key of the table that is enabled
bearer_ok(keys, bearer) == bearer \in DOMAIN keys /\ keys[bearer].enabled

\* POST /v1/api-keys; the new key is random, so any unused one: the first
CreateKeyRoute(c) ==
    /\ Cardinality(DOMAIN api_keys) < Len(KeyOrder)
    /\ LET k == KeyOrder[Cardinality(DOMAIN api_keys) + 1] IN
       /\ api_keys' = [x \in DOMAIN api_keys \cup {k} |->
                         IF x = k THEN ApiKeyInfo(c) ELSE api_keys[x]]
       /\ initial' = [initial EXCEPT ![k] = c]
    /\ UNCHANGED <<ret, added, debited, clockVars, poolVars, req>>
    /\ UNCHANGED restVars

\* POST /v1/add-credits
AddCreditsRoute(bearer, amount) ==
    /\ amount > 0
    /\ bearer_ok(api_keys, bearer)
    /\ added[bearer] + amount <= MaxAdded
    /\ api_keys' = [api_keys EXCEPT ![bearer].credits = @ + amount]
    /\ added' = [added EXCEPT ![bearer] = @ + amount]
    /\ UNCHANGED <<ret, initial, debited, clockVars, poolVars, req>>
    /\ UNCHANGED restVars

\* POST /v1/disable
DisableRoute(bearer) ==
    /\ bearer_ok(api_keys, bearer)
    /\ api_keys' = [api_keys EXCEPT ![bearer].enabled = FALSE]
    /\ UNCHANGED <<ret, initial, added, debited, clockVars, poolVars, req>>
    /\ UNCHANGED restVars

\* POST /v1/enable
EnableRoute(bearer) ==
    /\ bearer_ok(api_keys, bearer)
    /\ api_keys' = [api_keys EXCEPT ![bearer].enabled = TRUE]
    /\ UNCHANGED <<ret, initial, added, debited, clockVars, poolVars, req>>
    /\ UNCHANGED restVars

\* get_api_key (api_routes.py 26-57): the status it raises, 200 when it
\* returns the key
get_api_key(keys, authorization) ==
    IF authorization = NoHeader THEN 401
    ELSE IF ~get_key_info(keys, authorization) THEN 401
    ELSE IF ~keys[authorization].enabled THEN 403
    ELSE 200

\* POST /v1/disable, the whole handler: `ret` keeps the status answered
disable_api_key(authorization) ==
    /\ LET status == get_api_key(api_keys, authorization) IN
       /\ api_keys' = IF status = 200
                      THEN [api_keys EXCEPT ![authorization].enabled = FALSE]
                      ELSE api_keys
       /\ ret' = Ret("disable_api_key", authorization, status, status = 200)
    /\ UNCHANGED <<initial, added, debited, clockVars, poolVars, req>>
    /\ UNCHANGED restVars

\* POST /v1/enable, the whole handler: `ret` keeps the status answered
enable_api_key(authorization) ==
    /\ LET status == get_api_key(api_keys, authorization) IN
       /\ api_keys' = IF status = 200
                      THEN [api_keys EXCEPT ![authorization].enabled = TRUE]
                      ELSE api_keys
       /\ ret' = Ret("enable_api_key", authorization, status, status = 200)
    /\ UNCHANGED <<initial, added, debited, clockVars, poolVars, req>>
    /\ UNCHANGED restVars

\* ----------------------------------------------------------------- clock
Tick(d) ==
    /\ ticks < MaxTicks
    /\ now' = now + d
    /\ ticks' = ticks + 1
    /\ UNCHANGED <<ledgerVars, poolVars, req>>
    /\ UNCHANGED restVars

\* ProviderManager.__init__, and no make_request call under way; `calls`
\* counts the make_request calls made, `contacted` is the history of the
\* providers the current call has sent a request to, `visited` that of the
\* providers its loop has reached and how each visit ended; `selected`,
\* `recorded_on`, `token_of`, `proxy_of` and `marked` are the accounts of
\* the GitHub Copilot provider that the call selected, recorded its
\* timestamp on, took its token and its connector from and marked
NoCall == [pc |-> "idle", pos |-> 0, contacted |-> <<>>, result |-> 0,
           calls |-> 0, visited |-> <<>>, outcome |-> "", awaited |-> 0,
           selected |-> 0, recorded_on |-> 0, token_of |-> 0, proxy_of |-> 0,
           marked |-> 0, available |-> FALSE]

\* -------------------------------------------------------- ProviderManager
priority_key(config) ==
    IF config.priority = <<>> THEN DEFAULT_PRIORITY ELSE config.priority[1]

\* sorted(provider_configs, key=priority): a stable sort, here by insertion
\* of each configuration behind those whose key is not larger
RECURSIVE insert_sorted(_, _)
insert_sorted(sorted, config) ==
    IF sorted = <<>> THEN <<config>>
    ELSE IF priority_key(Head(sorted)) <= priority_key(config)
    THEN <<Head(sorted)>> \o insert_sorted(Tail(sorted), config)
    ELSE <<config>> \o sorted

RECURSIVE sorted_configs(_)
sorted_configs(configs) ==
    IF configs = <<>> THEN <<>>
    ELSE insert_sorted(sorted_configs(SubSeq(configs, 1, Len(configs) - 1)),
                       configs[Len(configs)])

\* OpenAICompatibleProvider.__init__; priority is kept as history of the
\* configuration the provider was built from
OpenAICompatibleProvider(config) ==
    [type |-> "openai-compatible",
     api_key |-> config.api_key, is_rate_limited |-> FALSE,
     rate_limited_until |-> 0, enabled |-> config.enabled,
     priority |-> priority_key(config)]

\* GithubCopilotProvider.__init__; its account_manager is the pool of
\* `accounts` and `current_index`
GithubCopilotProvider(config) ==
    [type |-> "github-copilot", current_account |-> NoAccount,
     enabled |-> config.enabled, priority |-> priority_key(config)]

\* AccountManager.create_from_config(accounts): a pool with one AccountInfo
\* per configured account, none selected yet
create_from_config(account_configs) ==
    [accounts |-> [i \in 1..Len(account_configs) |->
                      AccountInfo(account_configs[i])],
     current_index |-> 0]

\* AccountManager.has_usable_accounts(): the pool has at least one usable
\* account
has_usable_accounts(accs, t) ==
    \E a \in 1..Len(accs) : is_usable(accs[a], t).usable

\* the for loop of initialize_providers over the sorted configurations
RECURSIVE build_providers(_, _)
build_providers(configs, built) ==
    IF configs = <<>> THEN built
    ELSE LET config == Head(configs) IN
         IF ~config.enabled THEN build_providers(Tail(configs), built)
         ELSE IF config.type = "github-copilot"
         THEN build_providers(Tail(configs),
                              Append(built, GithubCopilotProvider(config)))
         ELSE IF config.type = "openai-compatible"
         THEN build_providers(Tail(configs),
                              Append(built, OpenAICompatibleProvider(config)))
         ELSE build_providers(Tail(configs), built)

\* a manager that keeps the configurations in the order of config.json
Mut_initialize_providers_unsorted(provider_configs) ==
    LET built == build_providers(provider_configs, <<>>) IN
    [providers |-> built, priority_order |-> [i \in 1..Len(built) |-> i]]

\* initialize_providers: the providers and their priority_order (1-based)
initialize_providers(provider_configs) ==
    LET built == build_providers(sorted_configs(provider_configs), <<>>) IN
    [providers |-> built, priority_order |-> [i \in 1..Len(built) |-> i]]

\* a provider that stays unavailable once it was rate limited
Mut_is_available_sticky(provider, t) ==
    IF provider.is_rate_limited THEN FALSE ELSE provider.api_key

\* OpenAICompatibleProvider.is_available
is_available(provider, t) ==
    IF provider.is_rate_limited /\ t < provider.rate_limited_until
    THEN FALSE
    ELSE provider.api_key

\* OpenAICompatibleProvider.handle_rate_limit
handle_rate_limit(provider, t) ==
    [provider EXCEPT !.is_rate_limited = TRUE,
                     !.rate_limited_until = t + PROVIDER_RATE_LIMIT_DURATION]

\* what the providers share: the pool of the GitHub Copilot provider and the
\* provider objects
World(accs, idx, provs) ==
    [accounts |-> accs, current_index |-> idx, providers |-> provs]

\* provider.is_available() of either provider class
provider_is_available(W, p, t) ==
    IF W.providers[p].type = "github-copilot"
    THEN has_usable_accounts(W.accounts, t)
    ELSE is_available(W.providers[p], t)

\* the calls of ProviderManager.make_request 110-131 on one provider have
\* ended: with a result ("ok"), with an empty token ("no_token"), with None
\* ("none", "429", "rate", "error") or with an exception that the except
\* clause of line 129 caught ("exception")
visit_ends(W, c, outcome) ==
    [world |-> W, call |-> [c EXCEPT !.pc = "visited", !.outcome = outcome]]

\* GithubCopilotProvider.make_request 68-90, with the token of account
\* `token_account`: the connector is asked of self.current_account, then
\* session.post suspends
copilot_post(W, p, c, token_account) ==
    LET cur == W.providers[p].current_account IN
    IF cur = NoAccount THEN visit_ends(W, c, "exception")
    ELSE [world |-> W,
          call |-> [c EXCEPT !.pc = "post", !.token_of = token_account,
                             !.proxy_of = cur]]

\* GithubCopilotProvider.make_request 56-66: up to the POST, or to the
\* refresh GET of get_access_token
copilot_make_request(W, p, c, t) ==
    LET cur == W.providers[p].current_account IN
    IF cur = NoAccount THEN visit_ends(W, c, "none")
    ELSE IF get_access_token(W.accounts[cur], t).cached
    THEN copilot_post(W, p, c, cur)
    ELSE [world |-> W, call |-> [c EXCEPT !.pc = "refresh2", !.awaited = cur]]

\* get_token_for_request 45-47 once it has a token, then ProviderManager
\* .make_request 111-116: record_request on self.current_account, and on to
\* the provider's make_request
copilot_recorded(W, p, c, t) ==
    LET cur == W.providers[p].current_account IN
    IF cur = NoAccount THEN visit_ends(W, c, "exception")
    ELSE copilot_make_request(
             [W EXCEPT !.accounts[cur] = record_request(@, t)], p,
             [c EXCEPT !.recorded_on = cur], t)

\* GithubCopilotProvider.get_token_for_request 35-40: the next usable
\* account becomes self.current_account
get_token_for_request(W, p, c, t) ==
    LET sel == get_next_usable_account(W.accounts, W.current_index, t)
        W1 == [accounts |-> sel.accounts,
               current_index |-> sel.current_index,
               providers |-> [W.providers EXCEPT
                                 ![p].current_account = sel.account]]
        c1 == [c EXCEPT !.selected = sel.account]
    IN IF sel.account = NoAccount THEN visit_ends(W1, c1, "no_token")
       ELSE IF get_access_token(sel.accounts[sel.account], t).cached
       THEN copilot_recorded(W1, p, c1, t)
       ELSE [world |-> W1,
             call |-> [c1 EXCEPT !.pc = "refresh", !.awaited = sel.account]]

\* the answer to the refresh GET that get_token_for_request 40 awaits
copilot_refresh_answer(W, p, c, answer, life, t) ==
    LET W1 == [W EXCEPT !.accounts[c.awaited] =
                            refresh_access_token(@, answer, life, t)]
    IN IF answer = "ok" THEN copilot_recorded(W1, p, c, t)
       ELSE IF W1.providers[p].current_account = NoAccount
       THEN visit_ends(W1, c, "exception")
       ELSE visit_ends(W1, c, "no_token")

\* the answer to the refresh GET that make_request 63 awaits
copilot_refresh2_answer(W, p, c, answer, life, t) ==
    LET W1 == [W EXCEPT !.accounts[c.awaited] =
                            refresh_access_token(@, answer, life, t)]
    IN IF answer = "ok" THEN copilot_post(W1, p, c, c.awaited)
       ELSE IF W1.providers[p].current_account = NoAccount
       THEN visit_ends(W1, c, "exception")
       ELSE visit_ends(W1, c, "none")

\* GithubCopilotProvider.handle_rate_limit
copilot_handle_rate_limit(W, p, t) ==
    LET cur == W.providers[p].current_account IN
    IF cur = NoAccount THEN W
    ELSE [W EXCEPT !.accounts[cur] =
                       mark_rate_limited(@, t, RATE_LIMIT_DURATION)]

\* GithubCopilotProvider.make_request 96-197: the upstream's answer to the
\* POST
copilot_post_answer(W, p, c, answer, t) ==
    IF answer \in {"429", "rate"}
    THEN visit_ends(copilot_handle_rate_limit(W, p, t),
                    [c EXCEPT !.marked = W.providers[p].current_account],
                    answer)
    ELSE visit_ends(W, c, answer)

\* OpenAICompatibleProvider.make_request 66-137: the upstream's answer to
\* the POST; an exception of the POST is caught there and gives None
openai_post_answer(W, p, c, answer, t) ==
    IF answer \in {"429", "rate"}
    THEN visit_ends([W EXCEPT !.providers[p] = handle_rate_limit(@, t)],
                    c, answer)
    ELSE visit_ends(W, c, answer)

\* ProviderManager.make_request 103-116 on the provider at position c.pos:
\* is_available, get_token_for_request and make_request up to the first
\* await that suspends
visit_provider(W, c, order, t) ==
    LET p == order[c.pos]
        c0 == [c EXCEPT !.available = provider_is_available(W, p, t)]
    IN IF ~c0.available THEN visit_ends(W, c0, "unavailable")
       ELSE IF W.providers[p].type = "github-copilot"
       THEN get_token_for_request(W, p, c0, t)
       ELSE [world |-> W, call |-> [c0 EXCEPT !.pc = "post"]]

\* a manager whose loop ends when a provider raised an exception
RECURSIVE Mut_provider_loop_raises(_, _, _)
Mut_provider_loop_raises(step, order, t) ==
    LET c == step.call
        seen == [c EXCEPT !.visited = Append(@, [idx |-> order[c.pos],
                                                 outcome |-> c.outcome])]
    IN IF c.pc = "post"
       THEN [step EXCEPT !.call.contacted =
                Append(@, [idx |-> order[c.pos], available |-> c.available,
                           answer |-> ""])]
       ELSE IF c.pc # "visited" THEN step
       ELSE IF c.outcome = "ok"
       THEN [step EXCEPT !.call = [seen EXCEPT !.pc = "done",
                                               !.result = order[c.pos]]]
       ELSE IF c.pos = Len(order) \/ c.outcome = "exception"
       THEN [step EXCEPT !.call = [seen EXCEPT !.pc = "done", !.result = 0]]
       ELSE Mut_provider_loop_raises(
                visit_provider(step.world, [seen EXCEPT !.pos = @ + 1],
                               order, t), order, t)

\* ProviderManager.make_request 100-134 after a step of the provider at
\* position c.pos: a POST that was sent joins `contacted`; a visit that
\* ended joins `visited`, and the loop returns its result or goes on to the
\* next provider of priority_order, to None behind the last
RECURSIVE provider_loop(_, _, _)
provider_loop(step, order, t) ==
    LET c == step.call
        seen == [c EXCEPT !.visited = Append(@, [idx |-> order[c.pos],
                                                 outcome |-> c.outcome])]
    IN IF c.pc = "post"
       THEN [step EXCEPT !.call.contacted =
                Append(@, [idx |-> order[c.pos], available |-> c.available,
                           answer |-> ""])]
       ELSE IF c.pc # "visited" THEN step
       ELSE IF c.outcome = "ok"
       THEN [step EXCEPT !.call = [seen EXCEPT !.pc = "done",
                                               !.result = order[c.pos]]]
       ELSE IF c.pos = Len(order)
       THEN [step EXCEPT !.call = [seen EXCEPT !.pc = "done", !.result = 0]]
       ELSE provider_loop(
                visit_provider(step.world, [seen EXCEPT !.pos = @ + 1],
                               order, t), order, t)

\* the step of a make_request call takes effect
Settle(step) ==
    /\ accounts' = step.world.accounts
    /\ current_index' = step.world.current_index
    /\ providers' = step.world.providers
    /\ call' = step.call

\* ProviderManager.initialize_providers(provider_configs); the pool of a
\* GitHub Copilot provider is built from its configured accounts
InitializeProviders(provider_configs) ==
    /\ call.pc = "idle" /\ call.calls = 0 /\ providers = <<>>
    /\ LET made == initialize_providers(provider_configs)
           pool == create_from_config([i \in 1..NumAccounts |-> i])
       IN /\ providers' = made.providers
          /\ priority_order' = made.priority_order
          /\ accounts' = pool.accounts
          /\ current_index' = pool.current_index
    /\ UNCHANGED <<ledgerVars, clockVars, req, picked, call, flight>>

\* ProviderManager.make_request is called
StartCall ==
    /\ call.pc \in {"idle", "done"}
    /\ call.calls < MaxCalls
    /\ LET W == World(accounts, current_index, providers)
           c == [NoCall EXCEPT !.pos = 1, !.calls = call.calls + 1]
       IN IF priority_order = <<>>
          THEN Settle([world |-> W, call |-> [c EXCEPT !.pc = "done"]])
          ELSE Settle(provider_loop(visit_provider(W, c, priority_order, now),
                                    priority_order, now))
    /\ UNCHANGED <<ledgerVars, clockVars, req, picked, priority_order, flight>>

\* the answer to a refresh GET of the GitHub Copilot provider
ProviderRefreshReply(answer, life) ==
    /\ call.pc \in {"refresh", "refresh2"}
    /\ LET W == World(accounts, current_index, providers)
           p == priority_order[call.pos]
       IN Settle(provider_loop(
              IF call.pc = "refresh"
              THEN copilot_refresh_answer(W, p, call, answer, life, now)
              ELSE copilot_refresh2_answer(W, p, call, answer, life, now),
              priority_order, now))
    /\ UNCHANGED <<ledgerVars, clockVars, req, picked, priority_order, flight>>

\* the upstream's answer to the provider's POST
ProviderReply(answer) ==
    /\ call.pc = "post"
    /\ LET W == World(accounts, current_index, providers)
           p == priority_order[call.pos]
           seen == [call EXCEPT
                       !.pc = "answered",
                       !.contacted[Len(call.contacted)].answer = answer]
       IN Settle(provider_loop(
              IF providers[p].type = "github-copilot"
              THEN copilot_post_answer(W, p, seen, answer, now)
              ELSE openai_post_answer(W, p, seen, answer, now),
              priority_order, now))
    /\ UNCHANGED <<ledgerVars, clockVars, req, picked, priority_order, flight>>

\* list_models 311-349 and 384-388: one pass of `while retry_count <
\* max_retries` up to its first await that suspends, then what follows the
\* loop.  The GET is counted in `posts`; no timestamp is recorded.
models_loop(rec, accs, idx, t) ==
    IF rec.retry_count >= max_retries
    THEN [rec |-> Finish(rec, IF rec.last_error THEN 500 ELSE 429),
          accounts |-> accs, current_index |-> idx]
    ELSE LET sel == get_next_usable_account(accs, idx, t) IN
         IF sel.account = NoAccount
         THEN [rec |-> Finish(rec, 503),
               accounts |-> sel.accounts, current_index |-> sel.current_index]
         ELSE LET a == sel.account IN
              IF get_access_token(sel.accounts[a], t).cached
              THEN [rec |-> [rec EXCEPT !.pc = "models_get", !.account = a,
                                        !.posts = @ + 1,
                                        !.post_via = get_proxy_connector(a)],
                    accounts |-> sel.accounts,
                    current_index |-> sel.current_index]
              ELSE [rec |-> [rec EXCEPT !.pc = "models_refresh",
                                        !.account = a,
                                        !.refresh_via = refresh_connector(a)],
                    accounts |-> sel.accounts,
                    current_index |-> sel.current_index]

\* GET /models arrives
ListModels(r) ==
    /\ req[r].pc = "idle"
    /\ Commit(r, models_loop(req[r], accounts, current_index, now))
    /\ UNCHANGED <<ledgerVars, clockVars>>
    /\ UNCHANGED restVars

\* list_models 319-349: the answer to the refresh GET; without a token the
\* ValueError of line 321 is answered 503
ModelsRefreshReply(r, answer, life) ==
    /\ req[r].pc = "models_refresh"
    /\ LET a == req[r].account
           accs == [accounts EXCEPT
                       ![a] = refresh_access_token(@, answer, life, now)]
       IN /\ accounts' = accs
          /\ req' = [req EXCEPT ![r] =
                IF answer = "ok"
                THEN [@ EXCEPT !.pc = "models_get", !.posts = @ + 1,
                               !.post_via = get_proxy_connector(a)]
                ELSE [Finish(@, 503) EXCEPT !.refresh_failed = TRUE]]
    /\ UNCHANGED <<ledgerVars, clockVars, current_index>>
    /\ UNCHANGED restVars

\* list_models 354-388: the upstream's answer to the GET
ModelsReply(r, answer, status) ==
    /\ req[r].pc = "models_get"
    /\ LET a == req[r].account
           again == [req[r] EXCEPT !.retry_count = @ + 1]
       IN Commit(r,
            CASE answer \in {"429", "rate"} ->
                     models_loop(again,
                         [accounts EXCEPT ![a] =
                             mark_rate_limited(@, now, RATE_LIMIT_DURATION)],
                         current_index, now)
              [] answer = "exception" ->
                     models_loop([again EXCEPT !.last_error = TRUE],
                                 accounts, current_index, now)
              [] answer = "error" ->
                     [rec |-> Finish(req[r], status), accounts |-> accounts,
                      current_index |-> current_index]
              [] OTHER ->
                     [rec |-> Finish(req[r], 200), accounts |-> accounts,
                      current_index |-> current_index])
    /\ UNCHANGED <<ledgerVars, clockVars>>
    /\ UNCHANGED restVars

\* one call of get_token_for_request and make_request on the provider, as
\* ProviderManager.make_request 110-122 makes them, takes a step
SettleFlight(r, step) ==
    /\ accounts' = step.world.accounts
    /\ current_index' = step.world.current_index
    /\ providers' = step.world.providers
    /\ flight' = [flight EXCEPT ![r] = step.call]
    /\ UNCHANGED <<ledgerVars, clockVars, req, picked, priority_order, call>>

\* a request is dispatched through the GitHub Copilot provider
FlightStart(r) ==
    /\ flight[r].pc = "idle"
    /\ SettleFlight(r, get_token_for_request(
                           World(accounts, current_index, providers), 1,
                           flight[r], now))

\* the answer to the refresh GET a dispatched request awaits
FlightRefreshReply(r, answer, life) ==
    /\ flight[r].pc \in {"refresh", "refresh2"}
    /\ LET W == World(accounts, current_index, providers) IN
       SettleFlight(r,
           IF flight[r].pc = "refresh"
           THEN copilot_refresh_answer(W, 1, flight[r], answer, life, now)
           ELSE copilot_refresh2_answer(W, 1, flight[r], answer, life, now))

\* the upstream's answer to the POST of a dispatched request
FlightPostReply(r, answer) ==
    /\ flight[r].pc = "post"
    /\ SettleFlight(r, copilot_post_answer(
                           World(accounts, current_index, providers), 1,
                           flight[r], answer, now))

LedgerInit ==
    /\ api_keys = [k \in {} |-> ApiKeyInfo(0)]
    /\ ret = Ret("init", UnknownKey, 0, TRUE)
    /\ initial = [k \in Keys |-> 0]
    /\ added = [k \in Keys |-> 0]
    /\ debited = [k \in Keys |-> 0]

\* account_manager.py 226-239: one AccountInfo per configured account
Init ==
    /\ LedgerInit
    /\ now = 0
    /\ ticks = 0
    /\ accounts = [i \in 1..NumAccounts |-> AccountInfo(i)]
    /\ current_index = 0
    /\ req = [r \in AllRequests |-> NewRequest]
    /\ picked = <<>>
    /\ providers = <<>>
    /\ priority_order = <<>>
    /\ call = NoCall
    /\ flight = <<>>

AnyKey == Keys \cup {UnknownKey}

NextLedger ==
    \/ \E k \in Keys, c \in InitialCredits : create_api_key(k, c)
    \/ \E k \in AnyKey, a \in AddAmounts : add_credits(k, a)
    \/ \E k \in AnyKey, n \in TokenAmounts : validate(k, n)
    \/ \E k \in AnyKey, n \in TokenAmounts : deduct_tokens(k, n)
    \/ \E k \in AnyKey : disable_key(k)
    \/ \E k \in AnyKey : enable_key(k)

SpecLedger == Init /\ [][NextLedger]_vars

Next ==
    \/ \E c \in InitialCredits : CreateKeyRoute(c)
    \/ \E k \in Keys, a \in AddAmounts : AddCreditsRoute(k, a)
    \/ \E k \in Keys : DisableRoute(k)
    \/ \E k \in Keys : EnableRoute(k)
    \/ \E d \in TickSteps : Tick(d)
    \/ \E r \in Requests, k \in AnyKey \cup {NoHeader} : Arrive(r, k)
    \/ \E r \in Requests, m \in RequestMessages, mt \in MaxTokensChoices,
          st \in BOOLEAN : Admit(r, m, mt, st)
    \/ \E r \in Requests, an \in {"ok", "bad", "fail", "exception"},
          life \in TokenLifetimes : RefreshReply(r, an, life)
    \/ \E r \in Requests, an \in {"429", "rate", "error", "exception"},
          st \in ErrorStatuses : PostFails(r, an, st)
    \/ \E r \in Requests, ch \in ResponseChoices, us \in UsageChoices :
          PostJson(r, ch, us)
    \/ \E r \in Requests : PostStream(r)
    \/ \E r \in Requests : StreamChunk(r)
    \/ \E r \in Requests : StreamEnd(r)
    \/ \E r \in Requests, kind \in {"connection", "other"} : StreamFault(r, kind)

Spec == Init /\ [][Next]_vars

\* several non-streaming requests in flight at once
NextConcurrent ==
    \/ \E c \in ConcurrentCredits : CreateKeyRoute(c)
    \/ \E d \in ConcurrentTickSteps : Tick(d)
    \/ \E r \in ConcurrentRequests, k \in Keys : Arrive(r, k)
    \/ \E r \in ConcurrentRequests, m \in ConcurrentMessages,
          mt \in MaxTokensChoices : Admit(r, m, mt, FALSE)
    \/ \E r \in ConcurrentRequests, an \in ConcurrentRefreshAnswers,
          life \in ConcurrentLifetimes : RefreshReply(r, an, life)
    \/ \E r \in ConcurrentRequests, an \in ConcurrentPostAnswers,
          st \in ErrorStatuses : PostFails(r, an, st)
    \/ \E r \in ConcurrentRequests, ch \in ResponseChoices :
          PostJson(r, ch, <<>>)

SpecConcurrent == Init /\ [][NextConcurrent]_vars

\* the account pool called directly
NextPool ==
    \/ CallNextUsable
    \/ \E a \in 1..NumAccounts, life \in ConcurrentLifetimes :
          CallUpdateAccessToken(a, life)
    \/ \E a \in 1..NumAccounts : CallRecordRequest(a)
    \/ \E a \in 1..NumAccounts : CallMarkRateLimited(a, RATE_LIMIT_DURATION)
    \/ \E a \in 1..NumAccounts : CallRefreshRefused(a)
    \/ \E d \in PoolTickSteps : Tick(d)

SpecPool == Init /\ [][NextPool]_vars

\* the key routes called over HTTP, with the calls they refuse, and one
\* chat request
NextRoutes ==
    \/ \E c \in InitialCredits : CreateKeyRoute(c)
    \/ \E k \in AnyKey \cup {NoHeader} : disable_api_key(k)
    \/ \E k \in AnyKey \cup {NoHeader} : enable_api_key(k)
    \/ \E r \in Requests, k \in AnyKey \cup {NoHeader} : Arrive(r, k)
    \/ \E r \in Requests, m \in RequestMessages, mt \in MaxTokensChoices,
          st \in BOOLEAN : Admit(r, m, mt, st)

SpecRoutes == Init /\ [][NextRoutes]_vars

\* the lists of provider configurations, with at most one GitHub Copilot
\* provider
ProviderConfigLists ==
    {cfgs \in UNION {[1..n -> ProviderConfigChoices] :
                        n \in 0..NumProviderConfigs} :
        Cardinality({i \in 1..Len(cfgs) :
                        cfgs[i].type = "github-copilot"}) <= 1}

\* the provider manager called directly
NextProviders ==
    \/ \E cfgs \in ProviderConfigLists : InitializeProviders(cfgs)
    \/ StartCall
    \/ \E an \in ConcurrentRefreshAnswers, life \in ConcurrentLifetimes :
          ProviderRefreshReply(an, life)
    \/ \E an \in ProviderAnswers : ProviderReply(an)
    \/ \E d \in PoolTickSteps : Tick(d)

SpecProviders == Init /\ [][NextProviders]_vars

\* a manager with one GitHub Copilot provider, and the requests that are
\* dispatched through it concurrently
InitCopilot ==
    /\ LedgerInit
    /\ now = 0
    /\ ticks = 0
    /\ LET made == initialize_providers(
                       <<[type |-> "github-copilot", enabled |-> TRUE,
                          priority |-> <<1>>, api_key |-> FALSE]>>)
           pool == create_from_config([i \in 1..NumAccounts |-> i])
       IN /\ providers = made.providers
          /\ priority_order = made.priority_order
          /\ accounts = pool.accounts
          /\ current_index = pool.current_index
    /\ req = [r \in AllRequests |-> NewRequest]
    /\ picked = <<>>
    /\ call = NoCall
    /\ flight = [r \in ConcurrentRequests |-> NoCall]

NextCopilot ==
    \/ \E r \in ConcurrentRequests : FlightStart(r)
    \/ \E r \in ConcurrentRequests, an \in ConcurrentRefreshAnswers,
          life \in ConcurrentLifetimes : FlightRefreshReply(r, an, life)
    \/ \E r \in ConcurrentRequests, an \in ProviderAnswers :
          FlightPostReply(r, an)
    \/ \E d \in PoolTickSteps : Tick(d)

SpecCopilot == InitCopilot /\ [][NextCopilot]_vars

\* a configuration with a single account
InitWindow ==
    /\ LedgerInit
    /\ now = 0
    /\ ticks = 0
    /\ accounts = <<AccountInfo(1)>>
    /\ current_index = 0
    /\ req = [r \in AllRequests |-> NewRequest]
    /\ picked = <<>>
    /\ providers = <<>>
    /\ priority_order = <<>>
    /\ call = NoCall
    /\ flight = <<>>

\* requests that the upstream answers with 200, against the single account
NextWindow ==
    \/ \E c \in ConcurrentCredits : CreateKeyRoute(c)
    \/ \E d \in ConcurrentTickSteps : Tick(d)
    \/ \E r \in WindowRequests, k \in Keys : Arrive(r, k)
    \/ \E r \in WindowRequests, m \in ConcurrentMessages,
          mt \in MaxTokensChoices : Admit(r, m, mt, FALSE)
    \/ \E r \in WindowRequests, life \in ConcurrentLifetimes :
          RefreshReply(r, "ok", life)
    \/ \E r \in WindowRequests, ch \in ResponseChoices :
          PostJson(r, ch, <<>>)

SpecWindow == InitWindow /\ [][NextWindow]_vars

\* requests against the single account while the clock passes the windows:
\* the upstream answers 200, or the POST fails and the request is retried
NextSaturation ==
    \/ \E c \in ConcurrentCredits : CreateKeyRoute(c)
    \/ \E d \in SaturationTickSteps : Tick(d)
    \/ \E r \in WindowRequests, k \in Keys : Arrive(r, k)
    \/ \E r \in WindowRequests, m \in ConcurrentMessages,
          mt \in MaxTokensChoices : Admit(r, m, mt, FALSE)
    \/ \E r \in WindowRequests, life \in ConcurrentLifetimes :
          RefreshReply(r, "ok", life)
    \/ \E r \in WindowRequests, st \in ErrorStatuses :
          PostFails(r, "exception", st)
    \/ \E r \in WindowRequests, ch \in ResponseChoices :
          PostJson(r, ch, <<>>)

SpecSaturation == InitWindow /\ [][NextSaturation]_vars

\* AccountManager.__init__: the pool before any add_account
InitEmpty ==
    /\ LedgerInit
    /\ now = 0
    /\ ticks = 0
    /\ accounts = <<>>
    /\ current_index = 0
    /\ req = [r \in AllRequests |-> NewRequest]
    /\ picked = <<>>
    /\ providers = <<>>
    /\ priority_order = <<>>
    /\ call = NoCall
    /\ flight = <<>>

\* add_account called with the credentials of RefreshTokens in any order
\* and any number of times, between direct calls on the accounts added
NextAddAccount ==
    \/ \E rt \in RefreshTokens : add_account(rt)
    \/ CallNextUsable
    \/ \E a \in 1..NumAccounts, life \in ConcurrentLifetimes :
          a <= Len(accounts) /\ CallUpdateAccessToken(a, life)
    \/ \E a \in 1..NumAccounts :
          a <= Len(accounts) /\ CallRecordRequest(a)
    \/ \E a \in 1..NumAccounts :
          a <= Len(accounts) /\ CallMarkRateLimited(a, RATE_LIMIT_DURATION)
    \/ \E a \in 1..NumAccounts :
          a <= Len(accounts) /\ CallRefreshRefused(a)

SpecAddAccount == InitEmpty /\ [][NextAddAccount]_vars

\* the methods of one account called directly, mark_rate_limited with any
\* of MarkDurations
NextAccount ==
    \/ \E a \in SoloAccounts : CallGetAccessToken(a)
    \/ \E a \in SoloAccounts, an \in {"ok", "bad", "fail", "exception"},
          life \in TokenLifetimes : CallRefreshAnswer(a, an, life)
    \/ \E a \in SoloAccounts, d \in MarkDurations :
          CallMarkRateLimited(a, d)
    \/ \E d \in TickSteps : Tick(d)

SpecAccount == InitWindow /\ [][NextAccount]_vars

\* the upstream answers the call a request is waiting for: the refresh GET
\* or the POST returns, fails or times out
UpstreamAnswers(r) ==
    \/ \E an \in {"ok", "bad", "fail", "exception"},
          life \in ConcurrentLifetimes : RefreshReply(r, an, life)
    \/ \E an \in {"429", "rate", "error", "exception"},
          st \in ErrorStatuses : PostFails(r, an, st)
    \/ \E ch \in ResponseChoices : PostJson(r, ch, <<>>)
    \/ PostStream(r)

\* a chat-completion request up to its outcome, with accounts that other
\* requests mark as rate limited meanwhile
NextTermination ==
    \/ \E c \in ConcurrentCredits : CreateKeyRoute(c)
    \/ \E d \in ConcurrentTickSteps : Tick(d)
    \/ \E a \in 1..NumAccounts : CallMarkRateLimited(a, RATE_LIMIT_DURATION)
    \/ \E r \in Requests, k \in Keys : Arrive(r, k)
    \/ \E r \in Requests, m \in ConcurrentMessages,
          mt \in MaxTokensChoices, st \in BOOLEAN : Admit(r, m, mt, st)
    \/ \E r \in Requests : UpstreamAnswers(r)

\* every upstream call returns or times out (ClientTimeout, server.py 104)
SpecTermination ==
    /\ Init /\ [][NextTermination]_vars
    /\ \A r \in Requests : WF_vars(UpstreamAnswers(r))

\* GET /models requests
NextModels ==
    \/ \E r \in ConcurrentRequests : ListModels(r)
    \/ \E r \in ConcurrentRequests, an \in ConcurrentRefreshAnswers,
          life \in ConcurrentLifetimes : ModelsRefreshReply(r, an, life)
    \/ \E r \in ConcurrentRequests, an \in ProviderAnswers,
          st \in ErrorStatuses : ModelsReply(r, an, st)
    \/ \E d \in PoolTickSteps : Tick(d)

SpecModels == Init /\ [][NextModels]_vars

\* one account that is given a token, requests and 429 marks, and then left
\* alone while the clock advances
NextTransient ==
    \/ CallNextUsable
    \/ \E a \in SoloAccounts, life \in ConcurrentLifetimes :
          CallUpdateAccessToken(a, life)
    \/ \E a \in SoloAccounts : CallRecordRequest(a)
    \/ \E a \in SoloAccounts : CallMarkRateLimited(a, RATE_LIMIT_DURATION)
    \/ \E a \in SoloAccounts : CallRefreshRefused(a)
    \/ \E d \in TickSteps : Tick(d)

SpecTransient == InitWindow /\ [][NextTransient]_vars

\* ------------------------------------------------------------------ claims

\* C2: for every key and every sequence of debits, credits equal the value
\* the key started with (plus what add_credits added) minus tokens/500000
\* summed over the debits that returned true, total_tokens_used has risen by
\* exactly the sum of those tokens, and credits are >= 0 right after a
\* debit that returned true.
C2_DebitSum ==
    /\ \A k \in DOMAIN api_keys :
          /\ api_keys[k].credits = initial[k] + added[k] - debited[k]
          /\ api_keys[k].total_tokens_used = debited[k]
    /\ (ret.op = "deduct" /\ ret.result) => api_keys[ret.key].credits >= 0

\* two debits of a positive size have succeeded on one key
C2_Witness ==
    /\ ret.op = "deduct" /\ ret.result /\ ret.arg > 0
    /\ api_keys[ret.key].total_tokens_used > ret.arg
    /\ debited[ret.key] = api_keys[ret.key].total_tokens_used

\* C4: validate(key, estimated_tokens) is true iff the key exists, is
\* enabled and credits >= estimated_tokens / 500000 (the price of a debit).
C4_ValidateAtDebitPrice ==
    ret.op = "validate" =>
        (ret.result <=> /\ ret.key \in DOMAIN api_keys
                        /\ api_keys[ret.key].enabled
                        /\ api_keys[ret.key].credits >= ret.arg)

\* C6: a debit that returns false (unknown key, or credits below
\* tokens_used/500000) leaves credits, total_tokens_used and enabled of
\* every key as they were.
C6_FailedDebitNoChange ==
    [][(ret'.op = "deduct" /\ ~ret'.result) => api_keys' = api_keys]_vars

\* a debit was refused for lack of credits on a key that has usage
C6_Witness ==
    /\ ret.op = "deduct" /\ ~ret.result
    /\ ret.key \in DOMAIN api_keys
    /\ api_keys[ret.key].credits < ret.arg
    /\ api_keys[ret.key].total_tokens_used > 0

\* C1: for every account and every configured window (d, m), in every
\* reachable state and under any interleaving of requests in flight, at most
\* m of the timestamps recorded against the account lie in (t-d, t].  (A
\* timestamp is the time of its recording, so the windows that end now are
\* the fullest ones, and pruning never drops a timestamp of theirs.)
C1_WindowBound ==
    \A a \in 1..NumAccounts : \A i \in 1..Len(RATE_LIMIT_WINDOWS) :
        Len(After(accounts[a].request_timestamps,
                  now - RATE_LIMIT_WINDOWS[i].duration))
            <= RATE_LIMIT_WINDOWS[i].max_requests

Rejected(rec) == rec.pc = "done" /\ rec.status \in {401, 402, 403}

\* C3: a request rejected at admission (401, 403, 402) causes no upstream
\* activity: the step that rejects it selects no account, leaves the cursor,
\* the accounts (tokens, timestamps) and the credits as they were, and the
\* request does nothing afterwards.
C3_RejectedNoUpstream ==
    /\ [][\A r \in Requests :
            /\ (~Rejected(req[r]) /\ Rejected(req'[r])) =>
                   UNCHANGED <<accounts, current_index, api_keys, debited>>
            /\ Rejected(req[r]) => req'[r] = req[r]]_vars
    /\ [](\A r \in Requests :
            Rejected(req[r]) => /\ req[r].account = NoAccount
                                /\ req[r].first_reply = ""
                                /\ req[r].debit = <<>>)

\* a request was refused with 402 although its key is enabled and holds credits
C3_Witness ==
    \E r \in Requests :
        /\ req[r].pc = "done" /\ req[r].status = 402
        /\ req[r].x_api_key \in DOMAIN api_keys
        /\ api_keys[req[r].x_api_key].enabled
        /\ api_keys[req[r].x_api_key].credits > 0

\* C5: while a key is disabled no debit changes its credits or its
\* total_tokens_used, and no request with that key is admitted, also when
\* the request was admitted before the key was disabled.
C5_DisabledNoDebit ==
    [][/\ \A k \in DOMAIN api_keys :
            ~api_keys[k].enabled =>
                /\ debited'[k] = debited[k]
                /\ api_keys'[k].total_tokens_used = api_keys[k].total_tokens_used
       /\ \A r \in Requests :
            (req[r].pc = "body" /\ req'[r].pc \notin {"body", "done"}) =>
                api_keys[req[r].x_api_key].enabled]_vars

RECURSIVE Flat(_)
Flat(chunks) == IF chunks = <<>> THEN <<>> ELSE Head(chunks) \o Flat(Tail(chunks))

DoneAt(bytes, i) ==
    i < Len(bytes) /\ bytes[i] = "DONE_a" /\ bytes[i + 1] = "DONE_b"

DoneCount(bytes) == Cardinality({i \in 1..Len(bytes) : DoneAt(bytes, i)})

Streamed(rec) == rec.pc = "done" /\ rec.stream_mode /\ rec.status = 200

\* C7: for every sequence of upstream chunks (empty, sentinel split over two
\* chunks, a fault at any position) what the client of a stream is sent ends
\* with a `data: [DONE]` frame, holds exactly one, and nothing follows it.
C7_OneDone ==
    \A r \in Requests :
        Streamed(req[r]) =>
            LET bytes == Flat(req[r].delivered) IN
            /\ ends_with_done(bytes)
            /\ DoneCount(bytes) = 1

\* C8: when the upstream connection fails after k >= 0 chunks of a streaming
\* response were forwarded, the client has exactly those k chunks, then one
\* connection_error frame, then the [DONE] frame; the status stays 200 and
\* the fault starts no retry: no account is selected or marked.
C8_ConnectionFault ==
    /\ [](\A r \in Requests :
            (req[r].pc = "done" /\ req[r].end = "connection") =>
                /\ req[r].delivered =
                       req[r].read \o << <<"connection_error">>, DONE >>
                /\ req[r].status = 200)
    /\ [][\A r \in Requests :
            (req[r].pc = "stream" /\ req'[r].end = "connection") =>
                /\ req'[r].pc = "done"
                /\ req'[r].retry_count = req[r].retry_count
                /\ req'[r].account = req[r].account
                /\ UNCHANGED <<accounts, current_index>>]_vars

\* the connection broke after two chunks, one of them with counted content
C8_Witness ==
    \E r \in Requests :
        /\ req[r].pc = "done" /\ req[r].end = "connection"
        /\ Len(req[r].read) = 2
        /\ req[r].total_tokens > 0

\* C9: when a connection fault cuts a stream after content chunks were
\* forwarded, the key is still debited by the tokens counted so far.
C9_FaultStillDebits ==
    \A r \in Requests :
        (req[r].pc = "done" /\ req[r].end = "connection"
            /\ req[r].total_tokens > 0) =>
                req[r].debit = <<req[r].total_tokens>>

\* C10: with two usable accounts, when the first attempt is answered 429 and
\* the upstream answers every later call with 200, the client is given the
\* 200 answer, streaming or not, and the first account's rate_limited_until
\* lies after the time of the 429.
C10_Failover ==
    \A r \in Requests :
        (req[r].pc \in {"stream", "done"} /\ req[r].first_reply = "429"
            /\ req[r].alt_usable /\ req[r].later_ok) =>
                /\ req[r].ok_reply
                /\ req[r].status = 200
                /\ accounts[req[r].first_account].rate_limited_until
                       > req[r].first_time

\* C11: when the first POST of a request is answered with a status that is
\* neither 200 nor 429 and whose body does not hold "rate", and another
\* account is usable, the request is not ended by that answer: it goes on to
\* another attempt.
C11_ErrorFailsOver ==
    [][\A r \in Requests :
          (/\ req[r].pc = "post"
           /\ req[r].first_reply = ""
           /\ req'[r].first_reply = "error"
           /\ other_usable(accounts, req[r].account, now))
              => req'[r].pc \in {"refresh", "post"}]_vars

\* C12: when the token refresh for the selected account fails while another
\* account is usable and no attempt was made yet, the request is not ended by
\* that failure: it goes on to another candidate.
C12_RefreshFailsOver ==
    [][\A r \in Requests :
          (/\ req[r].pc = "refresh"
           /\ req'[r].pc # "refresh"
           /\ req[r].retry_count = 0
           /\ accounts'[req[r].account].access_token = <<>>
           /\ other_usable(accounts', req[r].account, now))
              => req'[r].pc # "done"]_vars

ErrorStream(rec) ==
    /\ rec.status = 200
    /\ \E i \in 1..Len(rec.delivered) :
          \E j \in 1..Len(rec.delivered[i]) : rec.delivered[i][j] \in ErrorFrames

C14_AllDeclinedIs429 ==
    \A r \in Requests :
        (req[r].pc = "done" /\ req[r].posts >= 1 /\ req[r].only_declined
            /\ ~req[r].refresh_failed) =>
                req[r].status = 429

\* C17: for every account, with or without an access token, is_usable is
\* (not bad_credentials) and (not is_rate_limited).
C17_UsableLaw ==
    \A a \in 1..NumAccounts :
        is_usable(accounts[a], now).usable
            = (~accounts[a].bad_credentials
               /\ ~is_rate_limited(accounts[a], now).limited)

\* C20: for a 200 answer to a non-streaming request the tokens debited are
\* usage.total_tokens when the body carries it and otherwise the sum of
\* floor(len(content)/4) over the choices, and there is exactly one debit.
C20_DebitFromUsage ==
    \A r \in Requests :
        (req[r].pc = "done" /\ req[r].response # <<>>) =>
            LET body == req[r].response[1] IN
            req[r].debit = <<IF body.usage # <<>> THEN body.usage[1]
                             ELSE SumQuarter(body.choices)>>

\* get_next_usable_account has just returned account a to request r
Selected(r, a) ==
    /\ req[r].pc \in {"body", "post"}
    /\ req'[r].pc \in {"refresh", "post"}
    /\ req'[r].account = a

\* C16: once a token refresh for an account was answered 401 or "Bad
\* credentials", its bad_credentials flag stays true and
\* get_next_usable_account never returns the account again, whether or not
\* it ever held an access token.
C16_BadCredentialsPermanent ==
    [][\A a \in 1..NumAccounts :
          accounts[a].bad_credentials =>
              /\ accounts'[a].bad_credentials
              /\ \A r \in ConcurrentRequests : ~Selected(r, a)]_vars

\* C15: with a single account that holds two recorded requests t1 <= t2 and
\* whose first window is (d, 2), a request that reaches the account
\* selection at a time t < t1 + d is refused with 503 without a POST and
\* without a new timestamp, and one that reaches it at t = t1 + d is
\* admitted.  (Time never runs backwards, so t2 <= t.)
C15_WindowExclusion ==
    [][\A r \in WindowRequests :
          LET ts == accounts[1].request_timestamps
              d == RATE_LIMIT_WINDOWS[1].duration
          IN (/\ req[r].pc = "body"
              /\ req'[r].pc # "body"
              /\ req'[r].status # 402
              /\ accounts[1].access_token # <<>>
              /\ Len(ts) = RATE_LIMIT_WINDOWS[1].max_requests
              /\ Len(ts) = 2)
                 => /\ now < ts[1] + d =>
                          /\ req'[r].pc = "done"
                          /\ req'[r].status = 503
                          /\ req'[r].posts = 0
                          /\ accounts'[1].request_timestamps = ts
                    /\ now = ts[1] + d =>
                          /\ req'[r].pc \in {"refresh", "post"}
                          /\ req'[r].account = 1]_vars

\* two requests were answered 200 and the third was refused with 503 while
\* the window of the first was still open
C15_Witness ==
    /\ Len(accounts) = 1
    /\ req[1].status = 200 /\ req[2].status = 200
    /\ req[3].pc = "done" /\ req[3].status = 503 /\ req[3].posts = 0
    /\ Len(accounts[1].request_timestamps) = 2
    /\ now < accounts[1].request_timestamps[1] + RATE_LIMIT_WINDOWS[1].duration

\* C18: when the last N calls of get_next_usable_account (N the number of
\* accounts) were each made with every account usable, they returned N
\* different accounts, every account once, from whatever cursor position
\* the first of them started.
C18_RoundRobin ==
    (/\ Len(picked) = NumAccounts
     /\ \A i \in 1..Len(picked) : picked[i].all_usable)
        => /\ \A i, j \in 1..Len(picked) :
                 i # j => picked[i].account # picked[j].account
           /\ {picked[i].account : i \in 1..Len(picked)} = 1..NumAccounts

\* N calls in a row found every account usable, the first of them with the
\* cursor past account 1, and some account holds a token and a timestamp
C18_Witness ==
    /\ Len(picked) = NumAccounts
    /\ \A i \in 1..Len(picked) : picked[i].all_usable
    /\ picked[1].account # 1
    /\ \E a \in 1..NumAccounts :
          accounts[a].access_token # <<>> /\ accounts[a].request_timestamps # <<>>

\* C19: ProviderManager.make_request contacts providers in ascending
\* priority order, each at most once, never one that is disabled or that
\* is_available refused; it returns the first provider whose request
\* succeeded and contacts none after it.
C19_PriorityOrder ==
    LET c == call.contacted IN
    /\ \A i \in 1..Len(c) : \A j \in 1..Len(c) :
          i < j => /\ c[i].idx < c[j].idx
                   /\ providers[c[i].idx].priority <= providers[c[j].idx].priority
    /\ \A i \in 1..Len(c) :
          /\ providers[c[i].idx].enabled
          /\ c[i].available
          /\ \A k \in 1..Len(providers) :
                providers[k].priority < providers[c[i].idx].priority
                    => k < c[i].idx
    /\ \A i \in 1..Len(c) : i < Len(c) => c[i].answer \notin {"ok", ""}
    /\ call.pc = "done" =>
          call.result = IF c # <<>> /\ c[Len(c)].answer = "ok"
                        THEN c[Len(c)].idx ELSE 0

\* a call skipped a provider, was turned down by one and succeeded with a
\* provider of another priority
C19_Witness ==
    /\ call.pc = "done" /\ call.result # 0
    /\ Len(call.contacted) >= 2
    /\ call.result > Len(call.contacted)
    /\ providers[call.contacted[1].idx].priority < providers[call.result].priority

\* C21: a streaming request that was answered 200 has exactly one debit, made
\* when the stream starts and for the estimate made before the request; the
\* end of the body adds no debit.
C21_StreamDebitAtStart ==
    \A r \in Requests :
        (req[r].stream_mode /\ req[r].ok_reply
            /\ req[r].pc \in {"stream", "done"}) =>
                req[r].debit = <<req[r].estimate>>

\* C22: a POST /v1/enable whose bearer is a key of the table (one that a
\* POST /v1/disable with the same bearer has disabled included) is answered
\* 200 and leaves the key enabled.
C22_EnableAfterDisable ==
    (ret.op = "enable_api_key" /\ ret.key \in DOMAIN api_keys) =>
        /\ ret.result
        /\ api_keys[ret.key].enabled

\* C23: while a token refresh or a chat POST is under way for an account
\* that has a proxy configured, the session that carries it uses that
\* account's proxy connector.
C23_OwnProxy ==
    \A r \in Requests :
        LET a == req[r].account IN
        (req[r].pc \in {"refresh", "post"} /\ proxy_config(a) # NoProxy) =>
            IF req[r].pc = "refresh"
            THEN req[r].refresh_via = proxy_config(a)
            ELSE req[r].post_via = proxy_config(a)

\* the chunks the relay makes itself: the sentinel and the error frames
Injected == {DONE} \cup {<<e>> : e \in ErrorFrames}

\* C24: once a relay runs, what the client is sent begins with the chunks
\* read from upstream, unchanged and in their order, and holds after them
\* only frames the relay made; a chunk whose decoding fails is forwarded
\* like any other and leaves the token count as it was.
C24_RelayUnmodified ==
    [][\A r \in Requests :
          LET read == req'[r].read
              delivered == req'[r].delivered
          IN (req'[r].stream_mode /\ req'[r].ok_reply) =>
             /\ Len(delivered) >= Len(read)
             /\ SubSeq(delivered, 1, Len(read)) = read
             /\ \A i \in (Len(read) + 1)..Len(delivered) :
                    delivered[i] \in Injected
             /\ (Len(read) = Len(req[r].read) + 1
                    /\ ~decodes(read[Len(read)])) =>
                        /\ delivered = Append(req[r].delivered, read[Len(read)])
                        /\ req'[r].total_tokens = req[r].total_tokens]_vars

C24_Witness ==
    \E r \in Requests :
        /\ req[r].pc = "done" /\ req[r].end = "eof"
        /\ req[r].total_tokens > 0
        /\ \E i \in 1..Len(req[r].read) : ~decodes(req[r].read[i])
        /\ req[r].delivered = Append(req[r].read, DONE)

\* C25: in every order of debit, add_credits, enable and disable calls on a
\* key each call acts on what the calls before it left: it changes credits
\* by its own amount only, enabled by its own setting only, and afterwards
\* credits are the initial credits plus every amount added minus the cost
\* of every debit that returned true.
C25_NoLostUpdate ==
    [][\A k \in DOMAIN api_keys :
          LET old == api_keys[k]
              new == api_keys'[k]
              mine == ret'.key = k
              plus == IF mine /\ ret'.op = "add" THEN ret'.arg ELSE 0
              minus == IF mine /\ ret'.op = "deduct" /\ ret'.result
                       THEN ret'.arg ELSE 0
          IN /\ new.credits = old.credits + plus - minus
             /\ new.total_tokens_used = old.total_tokens_used + minus
             /\ new.enabled = IF mine /\ ret'.op = "enable" THEN TRUE
                              ELSE IF mine /\ ret'.op = "disable" THEN FALSE
                              ELSE old.enabled
             /\ new.credits = initial'[k] + added'[k] - debited'[k]]_vars

\* a debit has succeeded on a disabled key after an earlier debit and an
\* add_credits
C25_Witness ==
    /\ ret.op = "deduct" /\ ret.result /\ ret.arg > 0
    /\ ~api_keys[ret.key].enabled
    /\ added[ret.key] > 0
    /\ debited[ret.key] > ret.arg

\* the timestamps of account a that lie in (t - d, t]
InWindow(a, d, t) ==
    LET ts == accounts[a].request_timestamps IN
    {i \in 1..Len(ts) : t - d < ts[i] /\ ts[i] <= t}

\* C26: is_rate_limited answers true exactly when now is before the
\* account's rate_limited_until or some window (d, m) has at least m
\* timestamps in (now - d, now]; a timestamp at now - d is not counted.
C26_RateLimitedLaw ==
    \A a \in 1..Len(accounts) :
        is_rate_limited(accounts[a], now).limited <=>
            \/ now < accounts[a].rate_limited_until
            \/ \E w \in 1..Len(RATE_LIMIT_WINDOWS) :
                  Cardinality(InWindow(a, RATE_LIMIT_WINDOWS[w].duration, now))
                      >= RATE_LIMIT_WINDOWS[w].max_requests

\* an account holds as many timestamps as its first window allows, one of
\* them exactly one window length old, and is not rate limited
C26_Witness ==
    \E a \in 1..Len(accounts) :
        LET ts == accounts[a].request_timestamps
            w == RATE_LIMIT_WINDOWS[1]
        IN /\ Len(ts) >= w.max_requests
           /\ \E i \in 1..Len(ts) : ts[i] = now - w.duration
           /\ accounts[a].access_token # <<>>
           /\ ~is_rate_limited(accounts[a], now).limited

\* C27: a call of mark_rate_limited never moves an account's
\* rate_limited_until to an earlier time, whatever its duration.
C27_DeadlineNeverEarlier ==
    [][\A a \in 1..Len(accounts) :
          accounts'[a].rate_limited_until >= accounts[a].rate_limited_until]_vars

\* C28: a token refresh answered with a status that is neither 200 nor 401
\* and a body without "Bad credentials" leaves the account's
\* bad_credentials flag as it was.
C28_OtherFailureKeepsFlag ==
    [][(ret.op = "refreshing" /\ ret'.op = "refresh_access_token"
            /\ ret'.arg = "fail") =>
                accounts'[ret'.key].bad_credentials
                    = accounts[ret'.key].bad_credentials]_vars

\* C29: get_access_token returns the cached token, with no request to
\* GitHub, exactly when a token is cached, now + 60 < expires_at and the
\* account's rate_limited_until is not in the future.
C29_CachedTokenLaw ==
    \A a \in 1..Len(accounts) :
        get_access_token(accounts[a], now).cached <=>
            /\ accounts[a].access_token # <<>>
            /\ now + TOKEN_SAFETY_SKEW < accounts[a].access_token[1].expires_at
            /\ ~(now < accounts[a].rate_limited_until)

\* C30: get_next_usable_account returns no account exactly when no account
\* is usable, and then leaves the cursor where it was; otherwise it returns
\* the first usable account at or after the cursor in cyclic order and
\* leaves the cursor one past it, modulo the number of accounts; the cursor
\* is always within 0..N-1.
C30_NextUsableLaw ==
    LET N == Len(accounts)
        sel == get_next_usable_account(accounts, current_index, now)
        usable(a) == is_usable(accounts[a], now).usable
        at(k) == ((current_index + k) % N) + 1
    IN /\ current_index \in 0..(N - 1)
       /\ sel.current_index \in 0..(N - 1)
       /\ (sel.account = NoAccount) <=> (\A a \in 1..N : ~usable(a))
       /\ sel.account = NoAccount => sel.current_index = current_index
       /\ sel.account # NoAccount =>
              /\ \E k \in 0..(N - 1) :
                    /\ at(k) = sel.account
                    /\ usable(at(k))
                    /\ \A j \in 0..(k - 1) : ~usable(at(j))
              /\ sel.current_index = sel.account % N

\* two calls in a row returned the same account: the second one found the
\* account under the cursor unusable and went on to the next
C30_Witness ==
    /\ Len(picked) >= 2
    /\ picked[Len(picked)].account # NoAccount
    /\ picked[Len(picked)].account = picked[Len(picked) - 1].account
    /\ current_index = picked[Len(picked)].account % Len(accounts)

\* C31: no two accounts of the pool hold the same refresh_token, and an
\* add_account with a credential that is in the pool leaves the account
\* list, every account's state and the cursor as they were.
C31_AddAccountDedup ==
    [][/\ \A i, j \in 1..Len(accounts') :
             i # j => accounts'[i].refresh_token # accounts'[j].refresh_token
       /\ (/\ ret'.op = "add_account" /\ ~ret'.result
           /\ \/ ret.op # "add_account"
              \/ ret.key # ret'.key
              \/ ret.result) =>
               /\ accounts' = accounts
               /\ current_index' = current_index]_vars

\* a credential was added a second time after its account had been given a
\* token, a timestamp and an external deadline and the cursor had moved
C31_Witness ==
    /\ ret.op = "add_account" /\ ~ret.result
    /\ current_index # 0
    /\ \E a \in 1..Len(accounts) :
          /\ accounts[a].refresh_token = ret.key
          /\ accounts[a].access_token # <<>>
          /\ accounts[a].request_timestamps # <<>>
          /\ accounts[a].rate_limited_until > 0

\* the ways a visit of a provider ends without a result
FailedOutcomes ==
    {"unavailable", "no_token", "none", "429", "rate", "error", "exception"}

C33_OwnAccount ==
    \A r \in DOMAIN flight :
        LET f == flight[r] IN
        /\ f.recorded_on # NoAccount => f.recorded_on = f.selected
        /\ f.token_of # NoAccount =>
              f.token_of = f.selected /\ f.proxy_of = f.selected
        /\ f.outcome \in {"429", "rate"} => f.marked = f.selected

\* the time until which window w of an account stays saturated: the m-th
\* most recent timestamp plus the window's duration (0 with fewer than m)
SaturatedUntil(acc, w) ==
    LET ts == acc.request_timestamps IN
    IF Len(ts) < w.max_requests THEN 0
    ELSE ts[Len(ts) - w.max_requests + 1] + w.duration

\* C34: while now is before the m-th most recent timestamp of an account
\* plus d, for a window (d, m), is_rate_limited answers limited and is_usable
\* unusable; and no step (a pruning, a token refresh, a request of another
\* client) moves that time to an earlier one while it is still ahead.
C34_SaturationKept ==
    /\ [](\A a \in 1..Len(accounts) : \A i \in 1..Len(RATE_LIMIT_WINDOWS) :
            SaturatedUntil(accounts[a], RATE_LIMIT_WINDOWS[i]) > now =>
                /\ is_rate_limited(accounts[a], now).limited
                /\ ~is_usable(accounts[a], now).usable)
    /\ [][\A a \in 1..Len(accounts) : \A i \in 1..Len(RATE_LIMIT_WINDOWS) :
            SaturatedUntil(accounts[a], RATE_LIMIT_WINDOWS[i]) > now' =>
                SaturatedUntil(accounts'[a], RATE_LIMIT_WINDOWS[i])
                    >= SaturatedUntil(accounts[a], RATE_LIMIT_WINDOWS[i])]_vars

\* a timestamp of the account has been pruned, its window was saturated
\* before now and still is, and a retry's selection turned a request down
C34_Witness ==
    /\ Len(accounts[1].request_timestamps) < req[1].records + req[2].records
                                                + req[3].records
    /\ SaturatedUntil(accounts[1], RATE_LIMIT_WINDOWS[1]) > now
    /\ accounts[1].request_timestamps[Len(accounts[1].request_timestamps)]
           < now
    /\ \E r \in WindowRequests :
          req[r].pc = "done" /\ req[r].status = 503 /\ req[r].posts > 0

\* C35: mark_rate_limited sets the external deadline to now + 60, and an
\* account without bad credentials is usable in every state where now is
\* not before that deadline and every window (d, m) holds fewer than m
\* timestamps in (now - d, now]: the passing of time alone ends a rate
\* limit.
C35_Transient ==
    /\ [](\A a \in 1..Len(accounts) :
            (/\ ~accounts[a].bad_credentials
             /\ ~(now < accounts[a].rate_limited_until)
             /\ \A i \in 1..Len(RATE_LIMIT_WINDOWS) :
                   Cardinality(InWindow(a, RATE_LIMIT_WINDOWS[i].duration, now))
                       < RATE_LIMIT_WINDOWS[i].max_requests)
                => is_usable(accounts[a], now).usable)
    /\ [][\A a \in 1..Len(accounts) :
            accounts'[a].rate_limited_until # accounts[a].rate_limited_until
                => accounts'[a].rate_limited_until = now + 60]_vars

\* an account with a token that was marked 60 s ago and whose saturated
\* window has run out is usable, its timestamps still stored
C35_Witness ==
    \E a \in 1..Len(accounts) :
        /\ accounts[a].access_token # <<>>
        /\ accounts[a].rate_limited_until = now
        /\ now >= 60
        /\ Len(accounts[a].request_timestamps)
               >= RATE_LIMIT_WINDOWS[1].max_requests
        /\ is_usable(accounts[a], now).usable

\* C36: for every request, chat completion or models, the upstream requests
\* it has sent with an account's token are as many as the timestamps it has
\* recorded on the accounts' rate limiters.
C36_OneTimestampPerRequest ==
    \A r \in AllRequests : req[r].posts = req[r].records

\* C37: a chunk of an upstream body is read only while the session and the
\* response of its request are open, and no request that is over still
\* holds an open session.
C37_SessionOutlivesRelay ==
    /\ [][\A r \in Requests :
            Len(req'[r].read) > Len(req[r].read) => session_open(req[r])]_vars
    /\ [](\A r \in Requests : req[r].pc = "done" => ~session_open(req[r]))

\* C38: an OpenAI-compatible provider is available exactly when its api_key
\* is non-empty and now >= rate_limited_until; rate_limited_until changes
\* only when the provider's POST is answered 429 or with a rate error, and
\* then to now + 60.
C38_OpenAIAvailability ==
    /\ [](\A p \in 1..Len(providers) :
            providers[p].type = "openai-compatible" =>
                (is_available(providers[p], now) <=>
                    /\ providers[p].api_key
                    /\ now >= providers[p].rate_limited_until))
    /\ [][\A p \in 1..Len(providers) :
            providers[p].type = "openai-compatible" =>
                LET declined ==
                        /\ call.pc = "post"
                        /\ priority_order[call.pos] = p
                        /\ Len(call'.visited) > Len(call.visited)
                        /\ call'.visited[Len(call.visited) + 1].outcome
                               \in {"429", "rate"}
                IN /\ declined =>
                          providers'[p].rate_limited_until = now + 60
                   /\ ~declined =>
                          providers'[p].rate_limited_until
                              = providers[p].rate_limited_until]_vars

\* a provider that was answered 429 sixty seconds ago is available and was
\* sent the request of the next call
C38_Witness ==
    \E p \in 1..Len(providers) :
        /\ providers[p].type = "openai-compatible"
        /\ providers[p].is_rate_limited
        /\ providers[p].rate_limited_until = now
        /\ is_available(providers[p], now)
        /\ call.calls = 2
        /\ \E i \in 1..Len(call.contacted) : call.contacted[i].idx = p

\* the outcomes of a chat-completion request that was dispatched
DispatchedStatuses == {200, 429, 500, 503} \cup ErrorStatuses

\* C39: a request that waits for an upstream answer reaches its outcome (a
\* status, or the start of its stream); it makes at most max_retries passes
\* of the retry loop and as many POSTs; its outcome is 200, 429, 500, 503 or
\* the upstream's status, and once it is over nothing about it changes.
C39_Terminates ==
    /\ \A r \in Requests :
          req[r].pc \in {"refresh", "post"} ~> req[r].pc \in {"done", "stream"}
    /\ [](\A r \in Requests :
            req[r].retry_count <= max_retries /\ req[r].posts <= max_retries)
    /\ [][\A r \in Requests :
            /\ (req[r].pc \in {"refresh", "post"}
                    /\ req'[r].pc \in {"done", "stream"})
                  => req'[r].status \in DispatchedStatuses
            /\ req[r].pc \in {"done", "stream"} => req'[r] = req[r]]_vars

\* a request made three POSTs, none of which was answered 200, and was
\* answered 500 after the third
C39_Witness ==
    \E r \in Requests :
        /\ req[r].pc = "done" /\ req[r].status = 500
        /\ req[r].posts = max_retries /\ req[r].retry_count = max_retries

\* C40: every key of the table has credits >= 0 and total_tokens_used >= 0
\* in every state the key routes and the requests' debits lead to, and no
\* step lowers a key's total_tokens_used.
C40_LedgerNonNegative ==
    /\ [](\A k \in DOMAIN api_keys :
            api_keys[k].credits >= 0 /\ api_keys[k].total_tokens_used >= 0)
    /\ [][\A k \in DOMAIN api_keys :
            api_keys'[k].total_tokens_used
                >= api_keys[k].total_tokens_used]_vars

====
